---- MODULE Spec2Model ----
(***************************************************************************)
(* A model of moad_tools.midoss.random_oil_spills: the Monte Carlo         *)
(* pipeline that draws the parameters of random oil spills from one        *)
(* seeded random generator and read-only reference data.                   *)
(*                                                                         *)
(* Numbers: probabilities and fractions are fixed-point, One = 1.0, so     *)
(* that 1e-4 (the validation tolerance of the code) is one unit.           *)
(* The generator is a small linear congruential generator standing for     *)
(* PCG-64: one state word, advanced once per draw.  Its record carries two *)
(* history fields that the code does not have (log, lookups); they record  *)
(* what was drawn and which fraction tables were consulted.                *)
(***************************************************************************)
EXTENDS Integers, Sequences, FiniteSets, TLC

VARIABLES
    random_generator,   \* the generator of the call under way
    call,               \* unit harness: the function call made and its outcome
    pc,                 \* random_oil_spills: the stage about to run
    args,               \* random_oil_spills: n_spills, seed, config of the calls
    spill,              \* random_oil_spills: loop index of the event under way
    ev,                 \* random_oil_spills: local variables of the event
    spill_params,       \* random_oil_spills: the columns being filled
    history,            \* random_oil_spills: the stages run by the call under way
    returned            \* results of the completed calls, in call order

vars ==
    << random_generator, call, pc, args, spill, ev, spill_params, history,
       returned >>

-----------------------------------------------------------------------------
(* Python values *)

None == "None"

NoErr == [type |-> "none"]

Ok(v, rng) == [err |-> NoErr, val |-> v, rng |-> rng]

Raise(e, rng) == [err |-> e, val |-> None, rng |-> rng]

Failed(r) == r.err.type # "none"

Abs(x) == IF x < 0 THEN 0 - x ELSE x

RECURSIVE SumTo(_, _)
SumTo(seq, n) == IF n = 0 THEN 0 ELSE seq[n] + SumTo(seq, n - 1)

Sum(seq) == SumTo(seq, Len(seq))

\* 1.0 in fixed point; 1e-4 is one unit
One == 10000

\* the tolerance 1e-4 of the fraction-sum validations
Tol == 1

-----------------------------------------------------------------------------
(* The random generator *)

\* size of the generator's state space
RngMod == 16

Seeds == 0 .. (RngMod - 1)

\* the operating system's entropy ranges over 0 .. MaxEntropy
MaxEntropy == 2

\* one step of the generator's state
RngStep(s) == (5 * s + 3) % RngMod

\* random_seed=None is the empty tuple, random_seed=n the tuple << n >>
NoSeed == << >>

\* default_rng ignoring a given seed: always seeded from OS entropy
default_rng_unseeded(random_seed, entropy) ==
    [s |-> entropy % RngMod, log |-> << >>, lookups |-> 0]

\* numpy.random.default_rng(random_seed): seeded from the seed, or from OS
\* entropy when the seed is None
default_rng(random_seed, entropy) ==
    [s |-> IF random_seed = NoSeed THEN entropy % RngMod
           ELSE (7 * random_seed[1] + 1) % RngMod,
     log |-> << >>, lookups |-> 0]

Draws(rng) == Len(rng.log)

\* index of the item a uniform variate u/RngMod selects by the cumulative
\* weights of w (cdf.searchsorted(u, side="right")): the smallest i with
\* u/RngMod < (w[1]+..+w[i]) / Sum(w)
PickIndex(w, u) ==
    CHOOSE i \in 1 .. Len(w) :
        /\ u * Sum(w) < RngMod * SumTo(w, i)
        /\ \A j \in 1 .. (i - 1) : ~ (u * Sum(w) < RngMod * SumTo(w, j))

\* one weighted draw, p already validated: advances the state once
Draw(rng, w, by) ==
    LET s2 == RngStep(rng.s)
    IN  Ok(PickIndex(w, s2),
           [rng EXCEPT !.s = s2,
                       !.log = Append(rng.log,
                                      [by |-> by, p |-> w, n |-> Len(w),
                                       k |-> PickIndex(w, s2)])])

\* one uniform draw among n items: advances the state once
DrawUniform(rng, n, by) ==
    LET s2 == RngStep(rng.s)
    IN  Ok(((s2 * n) \div RngMod) + 1,
           [rng EXCEPT !.s = s2,
                       !.log = Append(rng.log,
                                      [by |-> by, p |-> << >>, n |-> n,
                                       k |-> ((s2 * n) \div RngMod) + 1])])

\* Generator.choice(a, p=p) with p given as is: numpy refuses an empty a,
\* negative probabilities and probabilities that do not sum to 1
choice_p(rng, p, by) ==
    IF Len(p) = 0
    THEN Raise([type |-> "ValueError", msg |-> "a cannot be empty"], rng)
    ELSE IF \E i \in 1 .. Len(p) : p[i] < 0
    THEN Raise([type |-> "ValueError", msg |-> "probabilities are not non-negative"], rng)
    ELSE IF Sum(p) # One
    THEN Raise([type |-> "ValueError", msg |-> "probabilities do not sum to 1"], rng)
    ELSE Draw(rng, p, by)

\* Generator.choice(a, p=w / w.sum()): a zero sum makes every probability
\* NaN, which numpy refuses; otherwise the normalised weights sum to 1
choice_normalised(rng, w, by) ==
    IF Len(w) = 0
    THEN Raise([type |-> "ValueError", msg |-> "a cannot be empty"], rng)
    ELSE IF Sum(w) = 0
    THEN Raise([type |-> "ValueError", msg |-> "probabilities contain NaN"], rng)
    ELSE IF \E i \in 1 .. Len(w) : w[i] < 0
    THEN Raise([type |-> "ValueError", msg |-> "probabilities are not non-negative"], rng)
    ELSE Draw(rng, w, by)

\* Generator.choice(a) without p: uniform over the n items
choice_uniform(rng, n, by) ==
    IF n = 0
    THEN Raise([type |-> "ValueError", msg |-> "a cannot be empty"], rng)
    ELSE DrawUniform(rng, n, by)

-----------------------------------------------------------------------------
(* Reference data.  The data files are not part of the source tree; a world *)
(* w names one set of them.  "ok" holds valid data, "baddata" holds tables  *)
(* with data-entry errors, "nofile" lacks one attribution file, "edge" has  *)
(* water in the last row of the mesh.                                      *)

Worlds == {"ok", "baddata", "nofile", "edge"}

Westridge == "Westridge Marine Terminal"

ESSO == "ESSO Nanaimo Departure Bay"

Suncor == "Suncor Nanaimo"

USOil == "U.S. Oil & Refining"

BPCherry == "BP Cherry Point Refinery"

\* oil_attrs["categories"]["CAD_origin_destination"]
CAD_origin_destination == {Westridge, ESSO, Suncor}

\* oil_attrs["categories"]["US_origin_destination"]
US_origin_destination == {USOil, BPCherry}

\* what an AIS track's FROM_ / TO attribute may hold
Places == {None, "Pacific", "US", "Canada"}
              \cup CAD_origin_destination \cup US_origin_destination

\* oil_attrs["categories"]["all_vessels"], in the order of the config's list
all_vessels ==
    << "tanker", "atb", "barge", "cargo", "cruise", "ferry", "fishing",
       "smallpass", "other" >>

AllVessels == {all_vessels[i] : i \in 1 .. Len(all_vessels)}

\* oil_attrs["categories"]["tank_vessels"]
tank_vessels == {"tanker", "atb", "barge"}

\* one vessel type's entry of a cargo attribution file: oil type ->
\* fraction_of_total, in the file's key order
Ship(akns, bunker, diesel, dilbit, gas, jet, other) ==
    << [oil |-> "akns", fraction_of_total |-> akns],
       [oil |-> "bunker", fraction_of_total |-> bunker],
       [oil |-> "diesel", fraction_of_total |-> diesel],
       [oil |-> "dilbit", fraction_of_total |-> dilbit],
       [oil |-> "gas", fraction_of_total |-> gas],
       [oil |-> "jet", fraction_of_total |-> jet],
       [oil |-> "other", fraction_of_total |-> other] >>

\* CAD_origin.yaml: facility -> vessel type -> oil type -> fraction
CAD_yaml(w) ==
    [f \in CAD_origin_destination |->
        [v \in tank_vessels |->
            IF f = Westridge THEN Ship(5000, 0, 0, 5000, 0, 0, 0)
            ELSE IF f = Suncor /\ v = "tanker" THEN Ship(0, 1000, 6000, 0, 3000, 0, 0)
            ELSE Ship(0, 2000, 5000, 0, 3000, 0, 0)]]

\* WA_destination.yaml: BP Cherry Point records no barge transfer
WA_in_yaml(w) ==
    [f \in US_origin_destination |->
        [v \in tank_vessels |->
            IF f = BPCherry /\ v = "barge" THEN Ship(0, 0, 0, 0, 0, 0, 0)
            ELSE IF f = BPCherry /\ v = "tanker" THEN Ship(7000, 0, 0, 3000, 0, 0, 0)
            ELSE Ship(6000, 0, 0, 4000, 0, 0, 0)]]

\* WA_origin.yaml: BP Cherry Point records no barge transfer
WA_out_yaml(w) ==
    [f \in US_origin_destination |->
        [v \in tank_vessels |->
            IF f = BPCherry /\ v = "barge" THEN Ship(0, 0, 0, 0, 0, 0, 0)
            ELSE IF f = BPCherry /\ v = "tanker" THEN Ship(0, 1000, 3000, 0, 4000, 2000, 0)
            ELSE Ship(0, 1000, 4000, 0, 3000, 2000, 0)]]

\* US_origin.yaml: no facility level; its barge entry has a data-entry
\* error in the world "baddata"
US_yaml(w) ==
    [v \in tank_vessels |->
        IF w = "baddata" /\ v = "barge" THEN Ship(0, 2000, 3000, 0, 0, 0, 0)
        ELSE Ship(0, 3000, 3000, 0, 4000, 0, 0)]

\* US_combined.yaml: no facility level
USall_yaml(w) ==
    [v \in tank_vessels |-> Ship(111, 934, 2717, 0, 4325, 1524, 389)]

\* Pacific_origin.yaml: no facility level
Pacific_yaml(w) ==
    [v \in tank_vessels |-> Ship(0, 7000, 0, 0, 0, 3000, 0)]

\* the attribution files named by oil_attrs["files"] that exist
FilesPresent(w) ==
    {"fuel", "CAD_origin", "WA_destination", "WA_origin", "US_origin",
     "US_combined", "Pacific_origin"}
        \ (IF w = "nofile" THEN {"US_combined"} ELSE {})

\* the fuel types file: vessel type -> bunker / diesel probability
vessel_fuel_types(w) ==
    [v \in AllVessels |->
        IF w = "baddata" /\ v = "ferry" THEN [bunker |-> 5000, diesel |-> 4000]
        ELSE IF w = "baddata" /\ v = "cargo" THEN [bunker |-> 7002, diesel |-> 3000]
        ELSE IF w = "baddata" /\ v = "cruise" THEN [bunker |-> 7001, diesel |-> 3000]
        ELSE IF v \in {"cargo", "cruise"} THEN [bunker |-> 7000, diesel |-> 3000]
        ELSE IF v \in tank_vessels THEN [bunker |-> 4000, diesel |-> 6000]
        ELSE [bunker |-> 0, diesel |-> One]]

\* oil_attrs["vessel_attributes"][vessel_type]: the keys of the cargo / fuel
\* decision; only the tank vessels carry them
HasSpillProbabilities(w, vessel_type) == vessel_type \in tank_vessels

probability_cargo(w, vessel_type) ==
    IF w = "baddata" /\ vessel_type = "atb" THEN 7000
    ELSE IF vessel_type = "tanker" THEN One
    ELSE 8000

probability_fuel(w, vessel_type) ==
    IF vessel_type = "tanker" THEN 0 ELSE 2000

\* oil_attrs["vessel_attributes"]["barge"]["probability_oilcargo"]
probability_oilcargo(w) == 5000

-----------------------------------------------------------------------------
(* Cargo oil type attribution *)

fractions(ship) == [i \in 1 .. Len(ship) |-> ship[i].fraction_of_total]

\* get_oil_type_cargo without its validation of the sum of the fractions
get_oil_type_cargo_unvalidated(cargo_info, facility, vessel_type, rng) ==
    IF facility \notin DOMAIN cargo_info
    THEN Raise([type |-> "KeyError", key |-> facility], rng)
    ELSE IF vessel_type \notin DOMAIN cargo_info[facility]
    THEN Raise([type |-> "KeyError", key |-> vessel_type], rng)
    ELSE
    LET ship == cargo_info[facility][vessel_type]
        looked == [rng EXCEPT !.lookups = rng.lookups + 1]
        c == choice_normalised(looked, fractions(ship), "get_oil_type_cargo")
    IN  IF Failed(c) THEN c ELSE Ok(ship[c.val].oil, c.rng)

get_oil_type_cargo(cargo_info, facility, vessel_type, rng) ==
    IF facility \notin DOMAIN cargo_info
    THEN Raise([type |-> "KeyError", key |-> facility], rng)
    ELSE IF vessel_type \notin DOMAIN cargo_info[facility]
    THEN Raise([type |-> "KeyError", key |-> vessel_type], rng)
    ELSE
    LET ship == cargo_info[facility][vessel_type]
        raw_probs == fractions(ship)
        looked == [rng EXCEPT !.lookups = rng.lookups + 1]
    IN  IF Abs(Sum(raw_probs) - One) > Tol
        THEN Raise([type |-> "ValueError", sum |-> Sum(raw_probs),
                    cargo_info |-> cargo_info, facility |-> facility,
                    vessel_type |-> vessel_type], looked)
        ELSE LET c == choice_normalised(looked, raw_probs, "get_oil_type_cargo")
             IN  IF Failed(c) THEN c ELSE Ok(ship[c.val].oil, c.rng)

get_oil_type_cargo_generic_US(cargo_info, vessel_type, rng) ==
    IF vessel_type \notin DOMAIN cargo_info
    THEN Raise([type |-> "KeyError", key |-> vessel_type], rng)
    ELSE
    LET ship == cargo_info[vessel_type]
        raw_probs == fractions(ship)
        looked == [rng EXCEPT !.lookups = rng.lookups + 1]
    IN  IF Abs(Sum(raw_probs) - One) > Tol
        THEN Raise([type |-> "ValueError", sum |-> Sum(raw_probs),
                    cargo_info |-> cargo_info, vessel_type |-> vessel_type],
                   looked)
        ELSE LET c == choice_normalised(looked, raw_probs,
                                        "get_oil_type_cargo_generic_US")
             IN  IF Failed(c) THEN c ELSE Ok(ship[c.val].oil, c.rng)

\* the six yaml files every attribution tree opens before it branches, in
\* the order it opens them
AttributionFiles ==
    << "CAD_origin", "WA_destination", "WA_origin", "US_origin",
       "US_combined", "Pacific_origin" >>

MissingFiles(w) ==
    {i \in 1 .. Len(AttributionFiles) : AttributionFiles[i] \notin FilesPresent(w)}

FileNotFound(w, rng) ==
    Raise([type |-> "FileNotFoundError",
           file |-> AttributionFiles[CHOOSE i \in MissingFiles(w) :
                                        \A j \in MissingFiles(w) : i <= j]],
          rng)

\* the jet special case of the atb tree missing: Westridge is attributed
\* from its table like any other Canadian origin
get_oil_type_atb_no_jet(w, origin, destination, rng) ==
    IF MissingFiles(w) # {} THEN FileNotFound(w, rng)
    ELSE IF origin \in CAD_origin_destination
    THEN get_oil_type_cargo(CAD_yaml(w), origin, "atb", rng)
    ELSE IF destination \in CAD_origin_destination
    THEN get_oil_type_cargo(CAD_yaml(w), destination, "atb", rng)
    ELSE get_oil_type_cargo_generic_US(USall_yaml(w), "atb", rng)

get_oil_type_atb(w, origin, destination, rng) ==
    LET vessel_type == "atb"
    IN
    IF MissingFiles(w) # {} THEN FileNotFound(w, rng)
    ELSE IF origin \in CAD_origin_destination
    THEN IF origin = Westridge
         THEN IF destination = USOil
              THEN get_oil_type_cargo(CAD_yaml(w), origin, vessel_type, rng)
              ELSE IF destination \in US_origin_destination
              THEN get_oil_type_cargo(CAD_yaml(w), origin, vessel_type, rng)
              ELSE IF destination \in CAD_origin_destination
              THEN Ok("jet", rng)
              ELSE get_oil_type_cargo(CAD_yaml(w), origin, vessel_type, rng)
         ELSE IF destination \in US_origin_destination
              THEN get_oil_type_cargo(WA_in_yaml(w), destination, vessel_type, rng)
              ELSE IF destination = ESSO
              THEN get_oil_type_cargo(CAD_yaml(w), destination, vessel_type, rng)
              ELSE IF destination = Suncor
              THEN get_oil_type_cargo(CAD_yaml(w), destination, vessel_type, rng)
              ELSE get_oil_type_cargo(CAD_yaml(w), origin, vessel_type, rng)
    ELSE IF origin \in US_origin_destination
    THEN IF destination = Westridge
         THEN Ok("jet", rng)
         ELSE get_oil_type_cargo(WA_out_yaml(w), origin, vessel_type, rng)
    ELSE IF destination \in US_origin_destination
    THEN get_oil_type_cargo(WA_in_yaml(w), destination, vessel_type, rng)
    ELSE IF destination \in CAD_origin_destination
    THEN IF destination = Westridge
         THEN Ok("jet", rng)
         ELSE get_oil_type_cargo(CAD_yaml(w), destination, vessel_type, rng)
    ELSE IF origin = "Pacific"
    THEN get_oil_type_cargo(Pacific_yaml(w), origin, vessel_type, rng)
    ELSE IF origin = "US"
    THEN get_oil_type_cargo(US_yaml(w), origin, vessel_type, rng)
    ELSE get_oil_type_cargo_generic_US(USall_yaml(w), vessel_type, rng)

\* the barge tree's `if not oil_type:` error catch after a table draw: an
\* empty oil type flags the track as a fuel-spill-only risk
BargeErrorCatch(r) ==
    IF Failed(r) THEN r
    ELSE IF r.val = ""
    THEN Ok([oil_type |-> None, fuel_spill |-> TRUE], r.rng)
    ELSE Ok([oil_type |-> r.val, fuel_spill |-> FALSE], r.rng)

BargeCargo(r) ==
    IF Failed(r) THEN r
    ELSE Ok([oil_type |-> r.val, fuel_spill |-> FALSE], r.rng)

\* the gate left out: an unlinked track is always attributed as oil cargo
BargeGate_always_cargo(w, generic_yaml, rng) ==
    BargeCargo(get_oil_type_cargo_generic_US(generic_yaml, "barge", rng))

\* the barge tree's gate for a track not linked to a terminal: one draw of
\* cargo-and-fuel risk against fuel-only risk, then the generic table
BargeGate(w, generic_yaml, rng) ==
    LET probability_fuelonly == One - probability_oilcargo(w)
        g == choice_p(rng, << probability_oilcargo(w), probability_fuelonly >>,
                      "get_oil_type_barge")
    IN  IF Failed(g) THEN g
        ELSE IF g.val = 2
        THEN Ok([oil_type |-> None, fuel_spill |-> TRUE], g.rng)
        ELSE BargeCargo(get_oil_type_cargo_generic_US(generic_yaml, "barge", g.rng))

get_oil_type_barge(w, origin, destination, rng) ==
    LET vessel_type == "barge"
    IN
    IF MissingFiles(w) # {} THEN FileNotFound(w, rng)
    ELSE IF origin \in CAD_origin_destination
    THEN IF origin = Westridge
         THEN IF destination \in CAD_origin_destination
              THEN Ok([oil_type |-> "jet", fuel_spill |-> FALSE], rng)
              ELSE BargeCargo(
                       get_oil_type_cargo(CAD_yaml(w), origin, vessel_type, rng))
         ELSE IF destination \in US_origin_destination
              THEN BargeErrorCatch(
                       get_oil_type_cargo(WA_in_yaml(w), destination, vessel_type, rng))
              ELSE IF destination = ESSO
              THEN BargeCargo(
                       get_oil_type_cargo(CAD_yaml(w), destination, vessel_type, rng))
              ELSE IF destination = Suncor
              THEN BargeCargo(
                       get_oil_type_cargo(CAD_yaml(w), destination, vessel_type, rng))
              ELSE BargeCargo(
                       get_oil_type_cargo(CAD_yaml(w), origin, vessel_type, rng))
    ELSE IF origin \in US_origin_destination
    THEN BargeErrorCatch(
             get_oil_type_cargo(WA_out_yaml(w), origin, vessel_type, rng))
    ELSE IF destination \in US_origin_destination
    THEN BargeErrorCatch(
             get_oil_type_cargo(WA_in_yaml(w), destination, vessel_type, rng))
    ELSE IF destination \in CAD_origin_destination
    THEN IF destination = Westridge
         THEN Ok([oil_type |-> "jet", fuel_spill |-> FALSE], rng)
         ELSE BargeCargo(
                  get_oil_type_cargo(CAD_yaml(w), destination, vessel_type, rng))
    ELSE IF origin = "Pacific"
    THEN BargeGate(w, Pacific_yaml(w), rng)
    ELSE IF origin = "US"
    THEN BargeGate(w, US_yaml(w), rng)
    ELSE IF origin = "Canada"
    THEN BargeGate(w, US_yaml(w), rng)
    ELSE BargeGate(w, US_yaml(w), rng)

\* the tanker tree without the preference for the WA destination table: a
\* Canadian origin is always attributed from the Canadian table
get_oil_type_tanker_origin_first(w, origin, destination, rng) ==
    LET vessel_type == "tanker"
    IN
    IF MissingFiles(w) # {} THEN FileNotFound(w, rng)
    ELSE IF origin \in CAD_origin_destination
    THEN get_oil_type_cargo(CAD_yaml(w), origin, vessel_type, rng)
    ELSE IF origin \in US_origin_destination
    THEN get_oil_type_cargo(WA_out_yaml(w), origin, vessel_type, rng)
    ELSE IF destination \in US_origin_destination
    THEN get_oil_type_cargo(WA_in_yaml(w), destination, vessel_type, rng)
    ELSE IF destination \in CAD_origin_destination
    THEN get_oil_type_cargo(CAD_yaml(w), destination, vessel_type, rng)
    ELSE IF origin = "Pacific"
    THEN get_oil_type_cargo_generic_US(Pacific_yaml(w), vessel_type, rng)
    ELSE IF origin = "US"
    THEN get_oil_type_cargo_generic_US(US_yaml(w), vessel_type, rng)
    ELSE get_oil_type_cargo_generic_US(USall_yaml(w), vessel_type, rng)

get_oil_type_tanker(w, origin, destination, rng) ==
    LET vessel_type == "tanker"
    IN
    IF MissingFiles(w) # {} THEN FileNotFound(w, rng)
    ELSE IF origin \in CAD_origin_destination
    THEN IF origin = Westridge
         THEN get_oil_type_cargo(CAD_yaml(w), origin, vessel_type, rng)
         ELSE IF destination \in US_origin_destination
              THEN get_oil_type_cargo(WA_in_yaml(w), destination, vessel_type, rng)
              ELSE get_oil_type_cargo(CAD_yaml(w), origin, vessel_type, rng)
    ELSE IF origin \in US_origin_destination
    THEN get_oil_type_cargo(WA_out_yaml(w), origin, vessel_type, rng)
    ELSE IF destination \in US_origin_destination
    THEN get_oil_type_cargo(WA_in_yaml(w), destination, vessel_type, rng)
    ELSE IF destination \in CAD_origin_destination
    THEN get_oil_type_cargo(CAD_yaml(w), destination, vessel_type, rng)
    ELSE IF origin = "Pacific"
    THEN get_oil_type_cargo_generic_US(Pacific_yaml(w), vessel_type, rng)
    ELSE IF origin = "US"
    THEN get_oil_type_cargo_generic_US(US_yaml(w), vessel_type, rng)
    ELSE get_oil_type_cargo_generic_US(USall_yaml(w), vessel_type, rng)

\* the draw from the vessel type's {bunker, diesel} distribution
FuelTypeDraw(raw_fuel_type_probs, rng) ==
    LET c == choice_normalised(rng, raw_fuel_type_probs, "get_oil_type")
    IN  IF Failed(c) THEN c
        ELSE Ok(<< "bunker", "diesel" >>[c.val], c.rng)

\* get_oil_type that sends a fuel spill of a tank vessel down the cargo
\* attribution tree (the fuel_spill test dropped)
get_oil_type_ignores_fuel_spill(w, vessel_type, vessel_origin, vessel_dest, fuel_spill, rng) ==
    IF vessel_type = "tanker"
    THEN get_oil_type_tanker(w, vessel_origin, vessel_dest, rng)
    ELSE FuelTypeDraw(<< vessel_fuel_types(w)[vessel_type].bunker,
                         vessel_fuel_types(w)[vessel_type].diesel >>, rng)

get_oil_type(w, vessel_type, vessel_origin, vessel_dest, fuel_spill, rng) ==
    IF vessel_type \notin DOMAIN vessel_fuel_types(w)
    THEN Raise([type |-> "KeyError", key |-> vessel_type], rng)
    ELSE
    LET raw_fuel_type_probs ==
            << vessel_fuel_types(w)[vessel_type].bunker,
               vessel_fuel_types(w)[vessel_type].diesel >>
    IN
    IF Abs(Sum(raw_fuel_type_probs) - One) > Tol
    THEN Raise([type |-> "ValueError", sum |-> Sum(raw_fuel_type_probs),
                vessel_type |-> vessel_type], rng)
    ELSE IF fuel_spill
    THEN FuelTypeDraw(raw_fuel_type_probs, rng)
    ELSE IF vessel_type = "atb"
    THEN get_oil_type_atb(w, vessel_origin, vessel_dest, rng)
    ELSE IF vessel_type = "barge"
    THEN LET b == get_oil_type_barge(w, vessel_origin, vessel_dest, rng)
         IN  IF Failed(b) THEN b
             ELSE IF b.val.fuel_spill
             THEN FuelTypeDraw(raw_fuel_type_probs, b.rng)
             ELSE Ok(b.val.oil_type, b.rng)
    ELSE IF vessel_type = "tanker"
    THEN get_oil_type_tanker(w, vessel_origin, vessel_dest, rng)
    ELSE Raise([type |-> "UnboundLocalError", name |-> "oil_type"], rng)

-----------------------------------------------------------------------------
(* Fuel or cargo *)

\* fuel_or_cargo_spill drawing also for a vessel type without the keys
fuel_or_cargo_spill_always_draws(w, vessel_type, rng) ==
    LET c == choice_p(rng, << 8000, 2000 >>, "fuel_or_cargo_spill")
    IN  IF Failed(c) THEN c ELSE Ok(<< FALSE, TRUE >>[c.val], c.rng)

fuel_or_cargo_spill(w, vessel_type, rng) ==
    IF ~ HasSpillProbabilities(w, vessel_type)
    THEN Ok(TRUE, rng)
    ELSE LET c == choice_p(rng, << probability_cargo(w, vessel_type),
                                   probability_fuel(w, vessel_type) >>,
                           "fuel_or_cargo_spill")
         IN  IF Failed(c) THEN c ELSE Ok(<< FALSE, TRUE >>[c.val], c.rng)

-----------------------------------------------------------------------------
(* Dates.  A datetime is a count of hours since 1 January 00:00 of a        *)
(* 365-day year.                                                            *)

DaysBefore == << 0, 31, 59, 90, 120, 151, 181, 212, 243, 273, 304, 334, 365 >>

\* datetime.month
MonthOf(hour) ==
    CHOOSE m \in 1 .. 12 :
        DaysBefore[m] * 24 <= hour /\ hour < DaysBefore[m + 1] * 24

\* the date windows a config may name: start date, end date
Windows ==
    { [start_date |-> 30 * 24, end_date |-> 32 * 24],
      [start_date |-> 58 * 24 + 20, end_date |-> 59 * 24 + 3] }

-----------------------------------------------------------------------------
(* Rasters, water mask and mesh *)

\* dataset.width and dataset.height of the GeoTIFFs
GeotiffWidth(w) == 2

GeotiffHeight(w) == 2

\* side of a GeoTIFF cell in coordinate units
CellSize(w) == 6

Cells(w) == 0 .. (GeotiffWidth(w) * GeotiffHeight(w) - 1)

\* the bounding box of GeoTIFF cell (px, py): row px from the top, column py
CellBBox(w, px, py) ==
    [llx |-> py * CellSize(w),
     lly |-> (GeotiffHeight(w) - px - 1) * CellSize(w),
     urx |-> (py + 1) * CellSize(w),
     ury |-> (GeotiffHeight(w) - px) * CellSize(w)]

\* a configuration whose geotiff-watermask.npy holds what calc_watermask
\* makes of its GeoTIFF grid and its mesh; two columns of the mesh lie on
\* the edges of the GeoTIFF cells
Calculated == "calculated"

\* the mesh mask: glamt, gphit and tmask by flat index, MeshWidth points a row
MeshWidth(w) == 4

MeshHeight(w) == 4

MeshPoints(w) == 0 .. (MeshWidth(w) * MeshHeight(w) - 1)

glamt(w, p) ==
    IF w = Calculated THEN 3 * (p % MeshWidth(w))
    ELSE 2 + 3 * (p % MeshWidth(w))

gphit(w, p) == 2 + 3 * (p \div MeshWidth(w))

tmask(w, p) ==
    IF p \div MeshWidth(w) = MeshHeight(w) - 1
    THEN (IF w = "edge" THEN 1 ELSE 0)
    ELSE IF p \in {0, 5} THEN 0
    ELSE IF w = Calculated /\ p \in {3, 7} THEN 0
    ELSE 1

\* calc_watermask counting the grid points on the edges of a cell as inside
calc_watermask_closed_box(w) ==
    [c \in Cells(w) |->
        LET xx == c \div GeotiffWidth(w)
            yy == c % GeotiffWidth(w)
            box == CellBBox(w, xx, yy)
        IN  \E p \in MeshPoints(w) :
                /\ tmask(w, p) # 0
                /\ glamt(w, p) >= box.llx
                /\ glamt(w, p) <= box.urx
                /\ gphit(w, p) >= box.lly
                /\ gphit(w, p) <= box.ury]

\* watermask[xx, yy] by flat cell index xx * n_y + yy: whether any grid
\* point with a nonzero tmask lies strictly inside the cell's box
calc_watermask(w) ==
    [c \in Cells(w) |->
        LET xx == c \div GeotiffWidth(w)
            yy == c % GeotiffWidth(w)
            box == CellBBox(w, xx, yy)
        IN  \E p \in MeshPoints(w) :
                /\ tmask(w, p) # 0
                /\ glamt(w, p) > box.llx
                /\ glamt(w, p) < box.urx
                /\ gphit(w, p) > box.lly
                /\ gphit(w, p) < box.ury]

\* geotiff-watermask.npy, by flat cell index; for the grid and the mesh of
\* Calculated these are the values calc_watermask gives
geotiff_watermask(w) == [c \in Cells(w) |-> c # 3]

\* the traffic of a month relative to the other months
MonthTraffic(m) == IF m \in {1, 2} THEN 1 ELSE IF m = 3 THEN 2 ELSE 0

\* {vessel_type}_2018_{month}.tif, band 1, by flat cell index
TypeRaster(w, vessel_type, month) ==
    [c \in Cells(w) |->
        MonthTraffic(month) *
        (IF w = "baddata" /\ c = 1 /\ month = 2 THEN 0
         ELSE CASE c = 0 -> (CASE vessel_type = "tanker" -> 2
                               [] vessel_type = "atb" -> 1
                               [] vessel_type = "cargo" -> 2
                               [] vessel_type = "cruise" -> 1
                               [] OTHER -> 0)
                [] c = 1 -> (CASE vessel_type = "barge" -> 3
                               [] vessel_type = "ferry" -> 1
                               [] vessel_type = "smallpass" -> 1
                               [] OTHER -> 0)
                [] c = 2 -> (CASE vessel_type = "atb" -> 1
                               [] vessel_type = "barge" -> 1
                               [] vessel_type = "fishing" -> 1
                               [] vessel_type = "other" -> 1
                               [] OTHER -> 0)
                [] OTHER -> (CASE vessel_type = "cargo" -> 1
                               [] OTHER -> 0))]

\* all_2018_{month}.tif, band 1, by flat cell index
AllRaster(w, month) ==
    [c \in Cells(w) |->
        MonthTraffic(month) * (CASE c = 0 -> 6 [] c = 1 -> 5 [] c = 2 -> 4 [] OTHER -> 1)]

-----------------------------------------------------------------------------
(* AIS tracks *)

Track(len, from, to, mmsi, frac_in_cell, duration) ==
    [LENGTH |-> len, FROM_ |-> from, TO |-> to, MMSI_NUM |-> mmsi,
     frac_in_cell |-> frac_in_cell, duration |-> duration]

\* whether the shapefile of the vessel type has FROM_ and TO attributes
HasVoyage(w, vessel_type) == vessel_type \in tank_vessels

\* the tracks of {vessel_type}_2018_{month}.shp that intersect the cell: the
\* fraction of the track inside the cell (in quarters) and its duration
\* (a track that only touches the cell has fraction 0, a track whose ST_DATE
\* and EN_DATE are equal has duration 0)
ais_tracks(w, vessel_type, month, cell) ==
    CASE vessel_type = "tanker" ->
            << Track(250, Westridge, USOil, 316001, 4, 2),
               Track(180, None, None, 316002, 2, 3),
               Track(20, "Pacific", Suncor, 316003, 1, 4) >>
      [] vessel_type = "atb" ->
            IF cell = 0
            THEN << Track(40, Westridge, Suncor, 367001, 4, 1),
                    Track(120, "Pacific", None, 367002, 2, 2) >>
            ELSE << Track(90, USOil, Westridge, 367003, 1, 4),
                    Track(215, None, None, 367004, 3, 1) >>
      [] vessel_type = "barge" ->
            IF month = 1
            THEN << Track(30, None, None, 366001, 4, 1),
                    Track(60, BPCherry, None, 366002, 4, 1),
                    Track(150, Westridge, ESSO, 366003, 4, 1) >>
            ELSE << Track(110, "Canada", None, 366004, 2, 1),
                    Track(160, Suncor, USOil, 366005, 2, 1),
                    Track(45, "US", None, 366006, 0, 5) >>
      [] vessel_type = "fishing" ->
            IF month = 2 THEN << >>
            ELSE << Track(16, None, None, 367704540, 4, 1) >>
      [] vessel_type = "smallpass" /\ w = "baddata" ->
            << Track(12, None, None, 367704544, 4, 0),
               Track(25, None, None, 367704545, 0, 3) >>
      [] vessel_type = "cargo" ->
            << Track(74, None, None, 367704541, 4, 1),
               Track(400, None, None, 367704542, 4, 1) >>
      [] OTHER ->
            << Track(16, None, None, 367704540, 4, 1),
               Track(60, None, None, 367704543, 0, 1) >>

-----------------------------------------------------------------------------
(* The sampling stages *)

\* total VTE by month over the cells of the water mask; the vector is kept
\* as weights, its normalisation being the division by their sum
calc_vte_probability(w) ==
    [m \in 1 .. 12 |->
        Sum([i \in 1 .. Cardinality(Cells(w)) |->
                IF geotiff_watermask(w)[i - 1] THEN AllRaster(w, m)[i - 1] ELSE 0])]

\* get_date without the selection of the hours of the month drawn
get_date_any_month(start_date, end_date, vte_probability, rng) ==
    LET m == choice_normalised(rng, vte_probability, "get_date")
    IN  IF Failed(m) THEN m
        ELSE
        LET time_period_inhours == end_date - start_date
            date_arr == [i \in 1 .. (time_period_inhours + 1) |-> start_date + i - 1]
            d == choice_uniform(m.rng, Len(date_arr), "get_date")
        IN  IF Failed(d) THEN d ELSE Ok(date_arr[d.val], d.rng)

get_date(start_date, end_date, vte_probability, rng) ==
    LET m == choice_normalised(rng, vte_probability, "get_date")
    IN  IF Failed(m) THEN m
        ELSE
        LET month_random == m.val
            time_period_inhours == end_date - start_date
            date_arr == [i \in 1 .. (time_period_inhours + 1) |-> start_date + i - 1]
            date_arr_select ==
                SelectSeq(date_arr, LAMBDA days : MonthOf(days) = month_random)
            d == choice_uniform(m.rng, Len(date_arr_select), "get_date")
        IN  IF Failed(d) THEN d ELSE Ok(date_arr_select[d.val], d.rng)

\* the nine points of a mesh cell, dx and dy in thirds of the cell
within_box ==
    << [name |-> "center", dx |-> 0, dy |-> 0],
       [name |-> "left", dx |-> 1, dy |-> 0],
       [name |-> "uleft", dx |-> 1, dy |-> 1],
       [name |-> "upper", dx |-> 0, dy |-> 1],
       [name |-> "uright", dx |-> -1, dy |-> 1],
       [name |-> "right", dx |-> -1, dy |-> 0],
       [name |-> "lright", dx |-> -1, dy |-> -1],
       [name |-> "lower", dx |-> 0, dy |-> -1],
       [name |-> "lleft", dx |-> 1, dy |-> -1] >>

\* get_lat_lon_indices choosing among the mesh points of the cell, water or
\* land
get_lat_lon_indices_any_point(w, spill_month, rng) ==
    LET ncells == Cardinality(Cells(w))
        data == [i \in 1 .. ncells |->
                    AllRaster(w, spill_month)[i - 1]
                        * (IF geotiff_watermask(w)[i - 1] THEN 1 ELSE 0)]
        c == choice_normalised(rng, data, "get_lat_lon_indices")
    IN  IF Failed(c) THEN c
        ELSE
        LET mp == c.val - 1
            px == mp \div GeotiffWidth(w)
            py == mp % GeotiffWidth(w)
            geotiff_bbox == CellBBox(w, px, py)
            npoints == Cardinality(MeshPoints(w))
            inner_points ==
                [i \in 1 .. npoints |->
                    IF /\ glamt(w, i - 1) > geotiff_bbox.llx
                       /\ glamt(w, i - 1) < geotiff_bbox.urx
                       /\ gphit(w, i - 1) > geotiff_bbox.lly
                       /\ gphit(w, i - 1) < geotiff_bbox.ury
                    THEN 1 ELSE 0]
            g == choice_normalised(c.rng, inner_points, "get_lat_lon_indices")
        IN  IF Failed(g) THEN g
            ELSE
            LET ssp == g.val - 1
                sslon == glamt(w, ssp)
                sslat == gphit(w, ssp)
                sh == choice_uniform(g.rng, Len(within_box), "get_lat_lon_indices")
                shift == within_box[sh.val]
                width == MeshWidth(w)
            IN  IF Failed(sh) THEN sh
                ELSE IF ssp + 1 \notin MeshPoints(w) \/ ssp + width \notin MeshPoints(w)
                THEN Raise([type |-> "IndexError", index |-> ssp], sh.rng)
                ELSE
                LET londx == glamt(w, ssp + 1) - glamt(w, ssp)
                    latdx == gphit(w, ssp + 1) - gphit(w, ssp)
                    londy == glamt(w, ssp + width) - glamt(w, ssp)
                    latdy == gphit(w, ssp + width) - gphit(w, ssp)
                IN  Ok([lat |-> 3 * sslat + latdx * shift.dx + latdy * shift.dy,
                        lon |-> 3 * sslon + londx * shift.dx + londy * shift.dy,
                        px |-> px, py |-> py, geotiff_bbox |-> geotiff_bbox,
                        value |-> data[mp + 1], ssp |-> ssp],
                       sh.rng)

\* latitudes and longitudes are returned in thirds of a coordinate unit
get_lat_lon_indices(w, spill_month, rng) ==
    LET ncells == Cardinality(Cells(w))
        data == [i \in 1 .. ncells |->
                    AllRaster(w, spill_month)[i - 1]
                        * (IF geotiff_watermask(w)[i - 1] THEN 1 ELSE 0)]
        c == choice_normalised(rng, data, "get_lat_lon_indices")
    IN  IF Failed(c) THEN c
        ELSE
        LET mp == c.val - 1
            px == mp \div GeotiffWidth(w)
            py == mp % GeotiffWidth(w)
            geotiff_bbox == CellBBox(w, px, py)
            npoints == Cardinality(MeshPoints(w))
            inner_points ==
                [i \in 1 .. npoints |->
                    IF /\ tmask(w, i - 1) = 1
                       /\ glamt(w, i - 1) > geotiff_bbox.llx
                       /\ glamt(w, i - 1) < geotiff_bbox.urx
                       /\ gphit(w, i - 1) > geotiff_bbox.lly
                       /\ gphit(w, i - 1) < geotiff_bbox.ury
                    THEN 1 ELSE 0]
            g == choice_normalised(c.rng, inner_points, "get_lat_lon_indices")
        IN  IF Failed(g) THEN g
            ELSE
            LET ssp == g.val - 1
                sslon == glamt(w, ssp)
                sslat == gphit(w, ssp)
                sh == choice_uniform(g.rng, Len(within_box), "get_lat_lon_indices")
                shift == within_box[sh.val]
                width == MeshWidth(w)
            IN  IF Failed(sh) THEN sh
                ELSE IF ssp + 1 \notin MeshPoints(w) \/ ssp + width \notin MeshPoints(w)
                THEN Raise([type |-> "IndexError", index |-> ssp], sh.rng)
                ELSE
                LET londx == glamt(w, ssp + 1) - glamt(w, ssp)
                    latdx == gphit(w, ssp + 1) - gphit(w, ssp)
                    londy == glamt(w, ssp + width) - glamt(w, ssp)
                    latdy == gphit(w, ssp + width) - gphit(w, ssp)
                IN  Ok([lat |-> 3 * sslat + latdx * shift.dx + latdy * shift.dy,
                        lon |-> 3 * sslon + londx * shift.dx + londy * shift.dy,
                        px |-> px, py |-> py, geotiff_bbox |-> geotiff_bbox,
                        value |-> data[mp + 1], ssp |-> ssp],
                       sh.rng)

\* get_vessel_type choosing among the vessel types without their VTE
get_vessel_type_unweighted(w, vessel_types, spill_month, geotiff_x_index, geotiff_y_index, rng) ==
    LET c == choice_uniform(rng, Len(vessel_types), "get_vessel_type")
    IN  IF Failed(c) THEN c ELSE Ok(vessel_types[c.val], c.rng)

get_vessel_type(w, vessel_types, spill_month, geotiff_x_index, geotiff_y_index, rng) ==
    LET vte_by_vessel_type ==
            [i \in 1 .. Len(vessel_types) |->
                TypeRaster(w, vessel_types[i], spill_month)
                    [geotiff_x_index * GeotiffWidth(w) + geotiff_y_index]]
        c == choice_normalised(rng, vte_by_vessel_type, "get_vessel_type")
    IN  IF Failed(c) THEN c ELSE Ok(vessel_types[c.val], c.rng)

\* the cell a bounding box is the box of
CellOfBBox(w, geotiff_bbox) ==
    (GeotiffHeight(w) - (geotiff_bbox.ury \div CellSize(w))) * GeotiffWidth(w)
        + (geotiff_bbox.llx \div CellSize(w))

get_length_origin_destination(w, vessel_type, spill_month, geotiff_bbox, rng) ==
    LET tracks == ais_tracks(w, vessel_type, spill_month, CellOfBBox(w, geotiff_bbox))
        vte == [i \in 1 .. Len(tracks) |->
                    tracks[i].frac_in_cell * tracks[i].duration]
        c == choice_normalised(rng, vte, "get_length_origin_destination")
    IN  IF Failed(c)
        THEN Raise([type |-> "ValueError", msg |-> "No AIS tracks in GeoTIFF box",
                    vessel_type |-> vessel_type, spill_month |-> spill_month,
                    geotiff_bbox |-> geotiff_bbox], c.rng)
        ELSE
        LET chosen == tracks[c.val]
        IN  Ok([vessel_len |-> chosen.LENGTH,
                vessel_origin |-> IF HasVoyage(w, vessel_type) THEN chosen.FROM_ ELSE None,
                vessel_dest |-> IF HasVoyage(w, vessel_type) THEN chosen.TO ELSE None,
                vessel_mmsi |-> ToString(chosen.MMSI_NUM)],
               c.rng)

\* the adjustment without its test of the length: every atb and barge gets
\* a catalogue length
adjust_tug_tank_barge_length_any_length(vessel_type, vessel_len, rng) ==
    IF vessel_type \notin {"atb", "barge"}
    THEN Ok(vessel_len, rng)
    ELSE LET c == choice_uniform(rng, 5, "adjust_tug_tank_barge_length")
         IN  IF Failed(c) THEN c
             ELSE Ok(<< 147, 172, 178, 206, 207 >>[c.val], c.rng)

\* the adjustment as the length of a tug added to the observed length
adjust_tug_tank_barge_length_adds_tug(vessel_type, vessel_len, rng) ==
    IF vessel_type \notin {"atb", "barge"} \/ vessel_len >= 100
    THEN Ok(vessel_len, rng)
    ELSE Ok(vessel_len + 147, rng)

adjust_tug_tank_barge_length(vessel_type, vessel_len, rng) ==
    IF vessel_type \notin {"atb", "barge"}
    THEN Ok(vessel_len, rng)
    ELSE IF vessel_len >= 100
    THEN Ok(vessel_len, rng)
    ELSE LET c == choice_uniform(rng, 5, "adjust_tug_tank_barge_length")
         IN  IF Failed(c) THEN c
             ELSE Ok(<< 147, 172, 178, 206, 207 >>[c.val], c.rng)

-----------------------------------------------------------------------------
(* Oil capacity.  Lengths are metres, capacities kilolitres.                *)

\* oil_attrs["vessel_attributes"][vessel_type]: length and capacity bounds
vessel_attributes(w, vessel_type) ==
    CASE vessel_type = "tanker" ->
            [min_length |-> 25, max_length |-> 300, min_fuel |-> 740,
             max_fuel |-> 3600, min_cargo |-> 7500, max_cargo |-> 185000]
      [] vessel_type = "atb" ->
            [min_length |-> 20, max_length |-> 210, min_fuel |-> 100,
             max_fuel |-> 600, min_cargo |-> 4000, max_cargo |-> 30000]
      [] vessel_type = "barge" ->
            [min_length |-> 20, max_length |-> 200, min_fuel |-> 50,
             max_fuel |-> 500, min_cargo |-> 1500, max_cargo |-> 32000]
      [] vessel_type = "cargo" ->
            [min_length |-> 100, max_length |-> 350, min_fuel |-> 1500,
             max_fuel |-> 17000, min_cargo |-> 0, max_cargo |-> 0]
      [] vessel_type = "cruise" ->
            [min_length |-> 50, max_length |-> 330, min_fuel |-> 100,
             max_fuel |-> 5000, min_cargo |-> 0, max_cargo |-> 0]
      [] vessel_type = "ferry" ->
            [min_length |-> 20, max_length |-> 170, min_fuel |-> 30,
             max_fuel |-> 500, min_cargo |-> 0, max_cargo |-> 0]
      [] vessel_type = "fishing" ->
            [min_length |-> 5, max_length |-> 130, min_fuel |-> 2,
             max_fuel |-> 280, min_cargo |-> 0, max_cargo |-> 0]
      [] vessel_type = "smallpass" ->
            [min_length |-> 5, max_length |-> 80, min_fuel |-> 1,
             max_fuel |-> 30, min_cargo |-> 0, max_cargo |-> 0]
      [] OTHER ->
            [min_length |-> 5, max_length |-> 100, min_fuel |-> 1,
             max_fuel |-> 60, min_cargo |-> 0, max_cargo |-> 0]

\* tanker: length_bins and the capacities by bin
length_bins(w) == << << 0, 150 >>, << 151, 200 >>, << 201, 250 >>, << 251, 300 >> >>

tanker_fuel_capacity(w) == << 740, 1956, 2662, 3600 >>

tanker_cargo_capacity(w) == << 7500, 53000, 126000, 185000 >>

\* atb and barge: the AIS-weighted capacity bins
cargo_capacity_bin_centers(w, vessel_type) == << 5000, 15000, 25000 >>

cargo_capacity_probability(w, vessel_type) ==
    IF vessel_type = "atb" THEN << 2000, 5000, 3000 >> ELSE << 6000, 4000, 0 >>

fuel_capacity_bin_centers(w, vessel_type) == << 150, 350, 550 >>

fuel_capacity_probability(w, vessel_type) ==
    IF vessel_type = "atb" THEN << 5000, 3000, 2000 >> ELSE << 7000, 2000, 1000 >>

\* a configuration whose fuel fits fall with the length, fall below zero or
\* stay under the smallest capacity
FallingFits == "fallingfits"

\* cargo_fit_coefs of the atb and fuel_fit_coefs of the other types, C[0]
\* first.  An exponential fit exp(C[1]) * exp(C[0] * length) is given by
\* << h, k >> with C[0] = ln(2) / h and C[1] = ln(k)
fit_coefs(w, vessel_type) ==
    IF w = FallingFits /\ vessel_type # "atb"
    THEN CASE vessel_type = "cargo" -> << 50, 1 >>
           [] vessel_type = "cruise" -> << -15, 500 >>
           [] vessel_type = "ferry" -> << 10, 10 >>
           [] vessel_type = "fishing" -> << -1, 2, -3 >>
           [] vessel_type = "smallpass" -> << 20, 0 >>
           [] OTHER -> << 25, 1 >>
    ELSE
    CASE vessel_type = "atb" -> << 180, -5000 >>
      [] vessel_type = "cargo" -> << 50, 400 >>
      [] vessel_type = "cruise" -> << 15, -500 >>
      [] vessel_type = "ferry" -> << 30, 10 >>
      [] vessel_type = "fishing" -> << 1, -2, 3 >>
      [] vessel_type = "smallpass" -> << 20, 2 >>
      [] OTHER -> << 25, 3 >>

\* _clamp without its upper threshold
_clamp_lower_only(n, minn, maxn) == IF n < minn THEN minn ELSE n

_clamp(n, minn, maxn) ==
    IF n < minn THEN minn
    ELSE IF n > maxn THEN maxn
    ELSE n

RECURSIVE FirstBin(_, _, _)
FirstBin(value, bins, i) ==
    IF i > Len(bins) THEN -1
    ELSE IF bins[i][1] <= value /\ value < bins[i][2] THEN i - 1
    ELSE FirstBin(value, bins, i + 1)

\* the smallest 0-based index i with bins[i][0] <= value < bins[i][1], or -1
_get_bin(value, bins) == FirstBin(value, bins, 1)

\* Python's list[i] for i >= -1: a negative index counts from the end
PyIndex(list, i) == IF i < 0 THEN list[Len(list) + 1 + i] ELSE list[i + 1]

\* max(max(bins)): the larger edge of the greatest bin in list order
MaxMaxBins(bins) ==
    LET top == CHOOSE b \in {bins[i] : i \in 1 .. Len(bins)} :
                   \A i \in 1 .. Len(bins) :
                       \/ bins[i][1] < b[1]
                       \/ (bins[i][1] = b[1] /\ bins[i][2] <= b[2])
    IN  IF top[1] > top[2] THEN top[1] ELSE top[2]

\* exp(C[1]) * exp(C[0] * length) in the encoding of fit_coefs
ExpFit(C, vessel_length) == C[2] * (2 ^ (vessel_length \div C[1]))

\* get_oil_capacity returning the fit of a vessel without cargo tanks as it
\* is, without the thresholds
get_oil_capacity_unclamped(w, vessel_length, vessel_type, rng) ==
    LET attrs == vessel_attributes(w, vessel_type)
        C == fit_coefs(w, vessel_type)
    IN  IF vessel_type \in {"tanker", "atb", "barge"}
        THEN Ok([fuel_capacity |-> attrs.min_fuel,
                 cargo_capacity |-> attrs.min_cargo], rng)
        ELSE Ok([fuel_capacity |->
                     CASE vessel_type = "cruise" -> C[2] + C[1] * vessel_length
                       [] vessel_type = "fishing" ->
                             C[3] + C[2] * vessel_length
                                 + C[1] * vessel_length * vessel_length
                       [] OTHER -> ExpFit(C, vessel_length),
                 cargo_capacity |-> 0], rng)

\* get_oil_capacity drawing the cargo capacity of every atb, whatever its
\* length: the linear fit left out
get_oil_capacity_atb_no_fit(w, vessel_length, vessel_type, rng) ==
    LET attrs == vessel_attributes(w, vessel_type)
    IN  IF vessel_type # "atb"
        THEN Ok([fuel_capacity |-> attrs.min_fuel, cargo_capacity |-> 0], rng)
        ELSE
        LET c == choice_p(rng, cargo_capacity_probability(w, "atb"), "get_oil_capacity")
        IN  IF Failed(c) THEN c
            ELSE LET f == choice_p(c.rng, fuel_capacity_probability(w, "atb"),
                                   "get_oil_capacity")
                 IN  IF Failed(f) THEN f
                     ELSE Ok([fuel_capacity |-> fuel_capacity_bin_centers(w, "atb")[f.val],
                              cargo_capacity |->
                                  cargo_capacity_bin_centers(w, "atb")[c.val]],
                             f.rng)

\* get_oil_capacity without its test of the vessel type: an unknown type is
\* given the attributes of "other"
get_oil_capacity_unvalidated(w, vessel_length, vessel_type, rng) ==
    LET attrs == vessel_attributes(w, vessel_type)
    IN  Ok([fuel_capacity |-> _clamp(vessel_length, attrs.min_fuel, attrs.max_fuel),
            cargo_capacity |-> 0], rng)

\* get_oil_capacity with the cargo bounds of the tank vessels left out: a
\* length outside the bounds gives the fuel bound and cargo 0 for every type
get_oil_capacity_no_cargo_bounds(w, vessel_length, vessel_type, rng) ==
    IF vessel_type \notin AllVessels
    THEN Raise([type |-> "ValueError", msg |-> "Oops! Vessel type isn't valid.",
                valid |-> all_vessels], rng)
    ELSE
    LET attrs == vessel_attributes(w, vessel_type)
    IN  Ok([fuel_capacity |-> IF vessel_length < attrs.min_length
                              THEN attrs.min_fuel ELSE attrs.max_fuel,
            cargo_capacity |-> 0], rng)

get_oil_capacity(w, vessel_length, vessel_type, rng) ==
    IF vessel_type \notin AllVessels
    THEN Raise([type |-> "ValueError", msg |-> "Oops! Vessel type isn't valid.",
                valid |-> all_vessels], rng)
    ELSE
    LET attrs == vessel_attributes(w, vessel_type)
        C == fit_coefs(w, vessel_type)
    IN
    IF vessel_length < attrs.min_length
    THEN Ok([fuel_capacity |-> attrs.min_fuel,
             cargo_capacity |-> IF vessel_type \in tank_vessels
                                THEN attrs.min_cargo ELSE 0], rng)
    ELSE IF vessel_length > attrs.max_length
    THEN Ok([fuel_capacity |-> attrs.max_fuel,
             cargo_capacity |-> IF vessel_type \in tank_vessels
                                THEN attrs.max_cargo ELSE 0], rng)
    ELSE IF vessel_type = "tanker"
    THEN LET bins == length_bins(w)
         IN  IF vessel_length >= MaxMaxBins(bins)
             THEN Ok([fuel_capacity |-> attrs.max_fuel,
                      cargo_capacity |-> attrs.max_cargo], rng)
             ELSE IF vessel_length < 0
             THEN Ok([fuel_capacity |-> attrs.min_fuel,
                      cargo_capacity |-> attrs.min_cargo], rng)
             ELSE LET bin_index == _get_bin(vessel_length, bins)
                  IN  Ok([fuel_capacity |-> PyIndex(tanker_fuel_capacity(w), bin_index),
                          cargo_capacity |-> PyIndex(tanker_cargo_capacity(w), bin_index)],
                         rng)
    ELSE IF vessel_type = "atb"
    THEN LET cg == IF vessel_length > 50
                   THEN Ok(_clamp(C[2] + C[1] * vessel_length,
                                  attrs.min_cargo, attrs.max_cargo), rng)
                   ELSE LET c == choice_p(rng, cargo_capacity_probability(w, "atb"),
                                          "get_oil_capacity")
                        IN  IF Failed(c) THEN c
                            ELSE Ok(cargo_capacity_bin_centers(w, "atb")[c.val], c.rng)
         IN  IF Failed(cg) THEN cg
             ELSE LET f == choice_p(cg.rng, fuel_capacity_probability(w, "atb"),
                                    "get_oil_capacity")
                  IN  IF Failed(f) THEN f
                      ELSE Ok([fuel_capacity |-> fuel_capacity_bin_centers(w, "atb")[f.val],
                               cargo_capacity |-> cg.val], f.rng)
    ELSE IF vessel_type = "barge"
    THEN LET c == choice_p(rng, cargo_capacity_probability(w, "barge"),
                           "get_oil_capacity")
         IN  IF Failed(c) THEN c
             ELSE LET f == choice_p(c.rng, fuel_capacity_probability(w, "barge"),
                                    "get_oil_capacity")
                  IN  IF Failed(f) THEN f
                      ELSE Ok([fuel_capacity |-> fuel_capacity_bin_centers(w, "barge")[f.val],
                               cargo_capacity |->
                                   cargo_capacity_bin_centers(w, "barge")[c.val]],
                              f.rng)
    ELSE
    LET fit_capacity ==
            CASE vessel_type \in {"cargo", "ferry", "smallpass", "other"} ->
                    ExpFit(C, vessel_length)
              [] vessel_type = "cruise" -> C[2] + C[1] * vessel_length
              [] vessel_type = "fishing" ->
                    C[3] + C[2] * vessel_length + C[1] * vessel_length * vessel_length
    IN  Ok([fuel_capacity |-> _clamp(fit_capacity, attrs.min_fuel, attrs.max_fuel),
            cargo_capacity |-> 0], rng)

-----------------------------------------------------------------------------
(* Fraction spilled *)

\* probability one in the units of cumulative
Millionths == 100 * One

\* _cumulative_spill_fraction at the 51 bin edges k/50, in millionths
cumulative ==
    << 0, 242668, 359663, 428515, 477876, 518411, 554155, 586702, 616735,
       644598, 670503, 694610, 717049, 737940, 757390, 775499, 792360, 808058,
       822674, 836282, 848952, 860749, 871733, 881959, 891481, 900346, 908599,
       916284, 923439, 930101, 936304, 942079, 947456, 952462, 957123, 961463,
       965504, 969266, 972768, 976030, 979066, 981893, 984525, 986976, 989258,
       991383, 993361, 995202, 996917, 998514, 1000000 >>

\* the fraction spilled, in hundredths: one of the 50 bin centres; the
\* probabilities, in millionths, are given to choice as they are and sum to 1
\* choose_fraction_spilled returning the upper edge of the bin drawn
choose_fraction_spilled_bin_edges(rng) ==
    LET nbins == Len(cumulative) - 1
        probability == [k \in 1 .. nbins |-> cumulative[k + 1] - cumulative[k]]
        c == choice_normalised(rng, probability, "choose_fraction_spilled")
    IN  IF Failed(c) THEN c ELSE Ok(2 * c.val, c.rng)

choose_fraction_spilled(rng) ==
    LET nbins == Len(cumulative) - 1
        probability == [k \in 1 .. nbins |-> cumulative[k + 1] - cumulative[k]]
        central_value == [k \in 1 .. nbins |-> 2 * k - 1]
    IN  IF Sum(probability) # Millionths
        THEN Raise([type |-> "ValueError", msg |-> "probabilities do not sum to 1"],
                   rng)
        ELSE LET c == choice_normalised(rng, probability, "choose_fraction_spilled")
             IN  IF Failed(c) THEN c ELSE Ok(central_value[c.val], c.rng)

-----------------------------------------------------------------------------
(* random_oil_spills, one action per stage of the loop body.  The caller    *)
(* makes up to MaxCalls calls with the same arguments, one after the other. *)

\* n_spills ranges over 0 .. MaxSpills
MaxSpills == 2

\* calls of random_oil_spills the caller makes
MaxCalls == 2

\* the stages of one spill event, in the order of the loop body
Stages ==
    << "get_date", "get_lat_lon_indices", "get_vessel_type",
       "get_length_origin_destination", "adjust_tug_tank_barge_length",
       "get_oil_capacity", "fuel_or_cargo_spill", "choose_fraction_spilled",
       "get_oil_type" >>

StageIndex(stage) == CHOOSE i \in 1 .. Len(Stages) : Stages[i] = stage

\* the loop body with the fuel-or-cargo decision made before the capacities
NextStage_decision_first(stage) ==
    CASE stage = "adjust_tug_tank_barge_length" -> "fuel_or_cargo_spill"
      [] stage = "fuel_or_cargo_spill" -> "get_oil_capacity"
      [] stage = "get_oil_capacity" -> "choose_fraction_spilled"
      [] OTHER -> Stages[StageIndex(stage) + 1]

\* the statement that follows a stage in the loop body
NextStage(stage) == Stages[StageIndex(stage) + 1]

\* spill_params = collections.defaultdict(list)
EmptyParams ==
    [spill_date_hour |-> << >>, run_days |-> << >>, spill_lon |-> << >>,
     spill_lat |-> << >>, geotiff_x_index |-> << >>, geotiff_y_index |-> << >>,
     vessel_type |-> << >>, vessel_mmsi |-> << >>, spill_volume |-> << >>,
     fuel_cargo |-> << >>, Lagrangian_template |-> << >>]

Columns == DOMAIN EmptyParams

\* the local variables of the loop body; assigned lists the ones the event
\* under way has assigned
NoEvent ==
    [spill_date_hour |-> 0, geotiff_x_index |-> 0, geotiff_y_index |-> 0,
     geotiff_bbox |-> CellBBox("ok", 0, 0), vessel_type |-> None,
     vessel_len |-> 0, vessel_origin |-> None, vessel_dest |-> None,
     fuel_capacity |-> 0, cargo_capacity |-> 0, fuel_spill |-> FALSE,
     max_spill_volume |-> 0, assigned |-> {}]

NoGenerator == [s |-> 0, log |-> << >>, lookups |-> 0]

NoCall == [fn |-> "none"]

\* the local variables a stage's call reads
StageReads(stage) ==
    CASE stage = "get_date" -> {}
      [] stage = "get_lat_lon_indices" -> {"spill_date_hour"}
      [] stage = "get_vessel_type" ->
             {"spill_date_hour", "geotiff_x_index", "geotiff_y_index"}
      [] stage = "get_length_origin_destination" ->
             {"vessel_type", "spill_date_hour", "geotiff_bbox"}
      [] stage = "adjust_tug_tank_barge_length" -> {"vessel_type", "vessel_len"}
      [] stage = "get_oil_capacity" -> {"vessel_len", "vessel_type"}
      [] stage = "fuel_or_cargo_spill" ->
             {"vessel_type", "fuel_capacity", "cargo_capacity"}
      [] stage = "choose_fraction_spilled" -> {"max_spill_volume", "fuel_spill"}
      [] stage = "get_oil_type" ->
             {"vessel_type", "vessel_origin", "vessel_dest", "fuel_spill"}

\* what a finished stage leaves behind: the generator it advanced, and a
\* line of the history
Ran(stage, r) ==
    /\ random_generator' = r.rng
    /\ history' = Append(history,
                         [spill |-> spill, stage |-> stage,
                          reads |-> StageReads(stage),
                          assigned |-> ev.assigned,
                          first_draw |-> Draws(random_generator),
                          last_draw |-> Draws(r.rng),
                          err |-> r.err])

\* list.append overwriting the last item in place of adding one
append_in_place(list, value) ==
    IF list = << >> THEN << value >>
    ELSE [list EXCEPT ![Len(list)] = value]

\* list.append
append(list, value) == Append(list, value)

\* an exception that skips the event: the loop goes on with the next one
Aborted_skips_event(r) ==
    /\ pc' = IF spill + 1 < args.n_spills THEN Stages[1] ELSE "return"
    /\ spill' = spill + 1
    /\ UNCHANGED << ev, spill_params, returned >>

\* an exception leaves random_oil_spills: the caller gets the error only
Aborted(r) ==
    /\ pc' = "idle"
    /\ returned' = Append(returned,
                          [err |-> r.err, df |-> << >>, draws |-> r.rng.log])
    /\ UNCHANGED << ev, spill_params, spill >>

Start ==
    /\ pc = "idle"
    /\ Len(returned) < MaxCalls
    /\ \E entropy \in 0 .. MaxEntropy :
           random_generator' = default_rng(args.random_seed, entropy)
    /\ spill_params' = EmptyParams
    /\ spill' = 0
    /\ ev' = NoEvent
    /\ history' = << >>
    /\ pc' = IF args.n_spills = 0 THEN "return" ELSE Stages[1]
    /\ UNCHANGED << call, args, returned >>

GetDate ==
    /\ pc = "get_date"
    /\ LET r == get_date(args.window.start_date, args.window.end_date,
                         calc_vte_probability(args.w), random_generator)
       IN  /\ Ran("get_date", r)
           /\ IF Failed(r) THEN Aborted(r)
              ELSE /\ ev' = [ev EXCEPT !.spill_date_hour = r.val,
                                       !.assigned = {"spill_date_hour"}]
                   /\ spill_params' =
                          [spill_params EXCEPT
                              !.spill_date_hour = append(@, r.val),
                              !.run_days = append(@, 7)]
                   /\ pc' = NextStage("get_date")
                   /\ UNCHANGED << spill, returned >>
    /\ UNCHANGED << call, args >>

GetLatLonIndices ==
    /\ pc = "get_lat_lon_indices"
    /\ LET r == get_lat_lon_indices(args.w, MonthOf(ev.spill_date_hour),
                                    random_generator)
       IN  /\ Ran("get_lat_lon_indices", r)
           /\ IF Failed(r) THEN Aborted(r)
              ELSE /\ ev' = [ev EXCEPT
                                !.geotiff_x_index = r.val.px,
                                !.geotiff_y_index = r.val.py,
                                !.geotiff_bbox = r.val.geotiff_bbox,
                                !.assigned = @ \cup {"geotiff_x_index",
                                                     "geotiff_y_index",
                                                     "geotiff_bbox"}]
                   /\ spill_params' =
                          [spill_params EXCEPT
                              !.spill_lon = append(@, r.val.lon),
                              !.spill_lat = append(@, r.val.lat),
                              !.geotiff_x_index = append(@, r.val.px),
                              !.geotiff_y_index = append(@, r.val.py)]
                   /\ pc' = NextStage("get_lat_lon_indices")
                   /\ UNCHANGED << spill, returned >>
    /\ UNCHANGED << call, args >>

GetVesselType ==
    /\ pc = "get_vessel_type"
    /\ LET r == get_vessel_type(args.w, all_vessels, MonthOf(ev.spill_date_hour),
                                ev.geotiff_x_index, ev.geotiff_y_index,
                                random_generator)
       IN  /\ Ran("get_vessel_type", r)
           /\ IF Failed(r) THEN Aborted(r)
              ELSE /\ ev' = [ev EXCEPT !.vessel_type = r.val,
                                       !.assigned = @ \cup {"vessel_type"}]
                   /\ spill_params' =
                          [spill_params EXCEPT !.vessel_type = append(@, r.val)]
                   /\ pc' = NextStage("get_vessel_type")
                   /\ UNCHANGED << spill, returned >>
    /\ UNCHANGED << call, args >>

GetLengthOriginDestination ==
    /\ pc = "get_length_origin_destination"
    /\ LET r == get_length_origin_destination(
                    args.w, ev.vessel_type, MonthOf(ev.spill_date_hour),
                    ev.geotiff_bbox, random_generator)
       IN  /\ Ran("get_length_origin_destination", r)
           /\ IF Failed(r) THEN Aborted(r)
              ELSE /\ ev' = [ev EXCEPT
                                !.vessel_len = r.val.vessel_len,
                                !.vessel_origin = r.val.vessel_origin,
                                !.vessel_dest = r.val.vessel_dest,
                                !.assigned = @ \cup {"vessel_len", "vessel_origin",
                                                     "vessel_dest"}]
                   /\ spill_params' =
                          [spill_params EXCEPT
                              !.vessel_mmsi = append(@, r.val.vessel_mmsi)]
                   /\ pc' = NextStage("get_length_origin_destination")
                   /\ UNCHANGED << spill, returned >>
    /\ UNCHANGED << call, args >>

AdjustTugTankBargeLength ==
    /\ pc = "adjust_tug_tank_barge_length"
    /\ LET r == adjust_tug_tank_barge_length(ev.vessel_type, ev.vessel_len,
                                             random_generator)
       IN  /\ Ran("adjust_tug_tank_barge_length", r)
           /\ IF Failed(r) THEN Aborted(r)
              ELSE /\ ev' = [ev EXCEPT !.vessel_len = r.val]
                   /\ pc' = NextStage("adjust_tug_tank_barge_length")
                   /\ UNCHANGED << spill, returned, spill_params >>
    /\ UNCHANGED << call, args >>

GetOilCapacity ==
    /\ pc = "get_oil_capacity"
    /\ LET r == get_oil_capacity(args.w, ev.vessel_len, ev.vessel_type,
                                 random_generator)
       IN  /\ Ran("get_oil_capacity", r)
           /\ IF Failed(r) THEN Aborted(r)
              ELSE /\ ev' = [ev EXCEPT
                                !.fuel_capacity = r.val.fuel_capacity,
                                !.cargo_capacity = r.val.cargo_capacity,
                                !.assigned = @ \cup {"fuel_capacity",
                                                     "cargo_capacity"}]
                   /\ pc' = NextStage("get_oil_capacity")
                   /\ UNCHANGED << spill, returned, spill_params >>
    /\ UNCHANGED << call, args >>

FuelOrCargoSpill ==
    /\ pc = "fuel_or_cargo_spill"
    /\ LET r == fuel_or_cargo_spill(args.w, ev.vessel_type, random_generator)
       IN  /\ Ran("fuel_or_cargo_spill", r)
           /\ IF Failed(r) THEN Aborted(r)
              ELSE /\ ev' = [ev EXCEPT
                                !.fuel_spill = r.val,
                                !.max_spill_volume =
                                    IF r.val THEN ev.fuel_capacity
                                    ELSE ev.cargo_capacity,
                                !.assigned = @ \cup {"fuel_spill",
                                                     "max_spill_volume"}]
                   /\ pc' = NextStage("fuel_or_cargo_spill")
                   /\ UNCHANGED << spill, returned, spill_params >>
    /\ UNCHANGED << call, args >>

\* the spill volume is kept in hundredths of a kilolitre
ChooseFractionSpilled ==
    /\ pc = "choose_fraction_spilled"
    /\ LET r == choose_fraction_spilled(random_generator)
       IN  /\ Ran("choose_fraction_spilled", r)
           /\ IF Failed(r) THEN Aborted(r)
              ELSE /\ spill_params' =
                          [spill_params EXCEPT
                              !.spill_volume =
                                  append(@, ev.max_spill_volume * r.val),
                              !.fuel_cargo =
                                  append(@, IF ev.fuel_spill THEN "fuel"
                                            ELSE "cargo")]
                   /\ pc' = NextStage("choose_fraction_spilled")
                   /\ UNCHANGED << spill, returned, ev >>
    /\ UNCHANGED << call, args >>

\* the fuel types file is opened, then get_oil_type is called; the last
\* statement of the loop body, after which the loop tests its range
GetOilType ==
    /\ pc = "get_oil_type"
    /\ LET r == IF "fuel" \notin FilesPresent(args.w)
                THEN Raise([type |-> "FileNotFoundError", file |-> "fuel"],
                           random_generator)
                ELSE get_oil_type(args.w, ev.vessel_type, ev.vessel_origin,
                                  ev.vessel_dest, ev.fuel_spill, random_generator)
       IN  /\ Ran("get_oil_type", r)
           /\ IF Failed(r) THEN Aborted(r)
              ELSE /\ spill_params' =
                          [spill_params EXCEPT
                              !.Lagrangian_template =
                                  append(@, << "Lagrangian_", r.val, ".dat" >>)]
                   /\ spill' = spill + 1
                   /\ pc' = IF spill + 1 < args.n_spills THEN Stages[1]
                            ELSE "return"
                   /\ UNCHANGED << returned, ev >>
    /\ UNCHANGED << call, args >>

\* df = pandas.DataFrame(spill_params); return df
Return ==
    /\ pc = "return"
    /\ returned' = Append(returned, [err |-> NoErr, df |-> << spill_params >>,
                            draws |-> random_generator.log])
    /\ pc' = "idle"
    /\ UNCHANGED << random_generator, call, args, spill, ev, spill_params,
                    history >>

Init ==
    /\ args \in [n_spills : 0 .. MaxSpills, random_seed : {NoSeed} \cup {<< n >> : n \in Seeds},
                 w : Worlds, window : Windows]
    /\ pc = "idle"
    /\ random_generator = NoGenerator
    /\ call = NoCall
    /\ spill = 0
    /\ ev = NoEvent
    /\ spill_params = EmptyParams
    /\ history = << >>
    /\ returned = << >>

Next ==
    \/ Start
    \/ GetDate
    \/ GetLatLonIndices
    \/ GetVesselType
    \/ GetLengthOriginDestination
    \/ AdjustTugTankBargeLength
    \/ GetOilCapacity
    \/ FuelOrCargoSpill
    \/ ChooseFractionSpilled
    \/ GetOilType
    \/ Return

Spec == Init /\ [][Next]_vars

-----------------------------------------------------------------------------
(* The functions called on their own, as the unit tests call them: a seeded *)
(* generator, one call, and the call's arguments and result kept in call.   *)

\* tables of one vessel type whose fractions sum to 1, 0, 0.999, 0.9999,
\* 1.0001, 1.0002, 1.001 and 2
TestShips ==
    { Ship(5000, 0, 0, 5000, 0, 0, 0), Ship(111, 934, 2717, 0, 4325, 1524, 389),
      Ship(0, 0, 0, 0, 0, 0, 0), Ship(9990, 0, 0, 0, 0, 0, 0),
      Ship(9000, 999, 0, 0, 0, 0, 0), Ship(5000, 0, 0, 5001, 0, 0, 0),
      Ship(5000, 0, 0, 5002, 0, 0, 0), Ship(5000, 0, 5010, 0, 0, 0, 0),
      Ship(10000, 0, 0, 0, 0, 0, 10000) }

\* tables keyed by facility, then vessel type
FacilityTables == { [f \in {Westridge} |-> [v \in {"atb"} |-> t]] : t \in TestShips }

\* tables keyed by vessel type only
VesselTables == { [v \in {"atb"} |-> t] : t \in TestShips }

InitUnit ==
    /\ random_generator \in { default_rng(<< n >>, 0) : n \in Seeds }
    /\ call = NoCall
    /\ pc = "unit"
    /\ args = [n_spills |-> 0, random_seed |-> NoSeed, w |-> "ok",
               window |-> CHOOSE x \in Windows : TRUE]
    /\ spill = 0
    /\ ev = NoEvent
    /\ spill_params = EmptyParams
    /\ history = << >>
    /\ returned = << >>

Called(c, r) ==
    /\ call' = c
    /\ random_generator' = r.rng
    /\ UNCHANGED << pc, args, spill, ev, spill_params, history, returned >>

CallGetOilTypeCargo ==
    /\ pc = "unit"
    /\ call = NoCall
    /\ \E cargo_info \in FacilityTables \cup VesselTables,
       facility \in {Westridge, ESSO, None}, vessel_type \in {"atb", "barge"} :
        LET r == get_oil_type_cargo(cargo_info, facility, vessel_type,
                                    random_generator)
        IN  Called([fn |-> "get_oil_type_cargo", cargo_info |-> cargo_info,
                    facility |-> facility, vessel_type |-> vessel_type,
                    before |-> random_generator, res |-> r], r)

CallGetOilTypeCargoGenericUS ==
    /\ pc = "unit"
    /\ call = NoCall
    /\ \E cargo_info \in VesselTables, vessel_type \in {"atb", "barge"} :
        LET r == get_oil_type_cargo_generic_US(cargo_info, vessel_type,
                                               random_generator)
        IN  Called([fn |-> "get_oil_type_cargo_generic_US",
                    cargo_info |-> cargo_info, vessel_type |-> vessel_type,
                    before |-> random_generator, res |-> r], r)

CallGetOilType ==
    /\ pc = "unit"
    /\ call = NoCall
    /\ \E w \in Worlds, vessel_type \in AllVessels, vessel_origin \in Places,
       vessel_dest \in Places, fuel_spill \in BOOLEAN :
        LET r == get_oil_type(w, vessel_type, vessel_origin, vessel_dest,
                              fuel_spill, random_generator)
        IN  Called([fn |-> "get_oil_type", w |-> w, vessel_type |-> vessel_type,
                    vessel_origin |-> vessel_origin, vessel_dest |-> vessel_dest,
                    fuel_spill |-> fuel_spill,
                    before |-> random_generator, res |-> r], r)

CallFuelOrCargoSpill ==
    /\ pc = "unit"
    /\ call = NoCall
    /\ \E w \in Worlds, vessel_type \in AllVessels :
        LET r == fuel_or_cargo_spill(w, vessel_type, random_generator)
        IN  Called([fn |-> "fuel_or_cargo_spill", w |-> w,
                    vessel_type |-> vessel_type,
                    before |-> random_generator, res |-> r], r)


\* vessel lengths below every minimum, inside the bounds and above every
\* maximum of vessel_attributes
TestLengths ==
    {0, 4, 10, 19, 20, 24, 49, 50, 51, 60, 81, 99, 101, 131, 150, 171, 201, 210, 211,
     250, 301, 331, 351}

\* a vessel type that is not one of the categories
NotAVessel == "tug"

CallGetOilCapacity ==
    /\ pc = "unit"
    /\ call = NoCall
    /\ \E w \in Worlds \cup {FallingFits}, vessel_length \in TestLengths,
       vessel_type \in AllVessels \cup {NotAVessel} :
        LET r == get_oil_capacity(w, vessel_length, vessel_type, random_generator)
        IN  Called([fn |-> "get_oil_capacity", w |-> w,
                    vessel_length |-> vessel_length, vessel_type |-> vessel_type,
                    before |-> random_generator, res |-> r], r)


\* observed lengths on both sides of the 100 m threshold
TestTugLengths == {0, 43, 99, 100, 143, 207, 243}

\* the call, the same call on its own result, and the same call from the
\* same generator with another observed length
CallAdjustTugTankBargeLength ==
    /\ pc = "unit"
    /\ call = NoCall
    /\ \E vessel_type \in AllVessels, vessel_len \in TestTugLengths,
       other_len \in TestTugLengths :
        LET r == adjust_tug_tank_barge_length(vessel_type, vessel_len,
                                              random_generator)
            again == adjust_tug_tank_barge_length(vessel_type, r.val, r.rng)
            other == adjust_tug_tank_barge_length(vessel_type, other_len,
                                                  random_generator)
        IN  Called([fn |-> "adjust_tug_tank_barge_length",
                    vessel_type |-> vessel_type, vessel_len |-> vessel_len,
                    other_len |-> other_len, before |-> random_generator,
                    res |-> r, again |-> again, other |-> other], r)


\* capacities below, between and above the thresholds, and thresholds in
\* either order
TestCapacities == (0 - 3) .. 12

TestThresholds == {0, 2, 5, 10}

CallClamp ==
    /\ pc = "unit"
    /\ call = NoCall
    /\ \E n \in TestCapacities, minn \in TestThresholds, maxn \in TestThresholds :
        LET r == Ok(_clamp(n, minn, maxn), random_generator)
        IN  Called([fn |-> "_clamp", n |-> n, minn |-> minn, maxn |-> maxn,
                    before |-> random_generator, res |-> r], r)


\* monthly VTE weights: those of the rasters of each world, and vectors with
\* traffic in no month, in one month, and in months outside the windows
TestVTE ==
    {calc_vte_probability(w) : w \in Worlds}
        \cup {[m \in 1 .. 12 |-> IF m \in S THEN 1 ELSE 0] :
                 S \in {{}, {1}, {3}, {7}, {2, 3}, {1, 2, 3, 7}}}

CallGetDate ==
    /\ pc = "unit"
    /\ call = NoCall
    /\ \E window \in Windows, vte_probability \in TestVTE :
        LET r == get_date(window.start_date, window.end_date, vte_probability,
                          random_generator)
        IN  Called([fn |-> "get_date", start_date |-> window.start_date,
                    end_date |-> window.end_date,
                    vte_probability |-> vte_probability,
                    before |-> random_generator, res |-> r], r)


\* months with traffic and a month without
TestMonths == 1 .. 4

CallGetLatLonIndices ==
    /\ pc = "unit"
    /\ call = NoCall
    /\ \E w \in Worlds \cup {Calculated}, spill_month \in TestMonths :
        LET r == get_lat_lon_indices(w, spill_month, random_generator)
        IN  Called([fn |-> "get_lat_lon_indices", w |-> w,
                    spill_month |-> spill_month,
                    before |-> random_generator, res |-> r], r)


CallGetLengthOriginDestination ==
    /\ pc = "unit"
    /\ call = NoCall
    /\ \E w \in Worlds, vessel_type \in AllVessels, spill_month \in 1 .. 3,
       cell \in Cells("ok") :
        LET geotiff_bbox == CellBBox(w, cell \div GeotiffWidth(w),
                                     cell % GeotiffWidth(w))
            r == get_length_origin_destination(w, vessel_type, spill_month,
                                               geotiff_bbox, random_generator)
        IN  Called([fn |-> "get_length_origin_destination", w |-> w,
                    vessel_type |-> vessel_type, spill_month |-> spill_month,
                    cell |-> cell, geotiff_bbox |-> geotiff_bbox,
                    before |-> random_generator, res |-> r], r)


\* lists of candidate vessel types: the configuration's, and shorter ones
TestVesselTypes == {all_vessels, << "tanker", "ferry" >>, << "fishing" >>}

CallGetVesselType ==
    /\ pc = "unit"
    /\ call = NoCall
    /\ \E w \in Worlds, vessel_types \in TestVesselTypes, spill_month \in TestMonths,
       geotiff_x_index \in 0 .. (GeotiffHeight("ok") - 1),
       geotiff_y_index \in 0 .. (GeotiffWidth("ok") - 1) :
        LET r == get_vessel_type(w, vessel_types, spill_month, geotiff_x_index,
                                 geotiff_y_index, random_generator)
        IN  Called([fn |-> "get_vessel_type", w |-> w,
                    vessel_types |-> vessel_types, spill_month |-> spill_month,
                    geotiff_x_index |-> geotiff_x_index,
                    geotiff_y_index |-> geotiff_y_index,
                    before |-> random_generator, res |-> r], r)


CallGetOilTypeTanker ==
    /\ pc = "unit"
    /\ call = NoCall
    /\ \E w \in Worlds, origin \in Places, destination \in Places :
        LET r == get_oil_type_tanker(w, origin, destination, random_generator)
        IN  Called([fn |-> "get_oil_type_tanker", w |-> w, origin |-> origin,
                    destination |-> destination,
                    before |-> random_generator, res |-> r], r)

NextUnit ==
    \/ CallGetOilTypeCargo
    \/ CallGetOilTypeCargoGenericUS
    \/ CallGetOilType
    \/ CallFuelOrCargoSpill
    \/ CallGetOilCapacity
    \/ CallAdjustTugTankBargeLength
    \/ CallClamp
    \/ CallGetDate
    \/ CallGetLatLonIndices
    \/ CallGetLengthOriginDestination
    \/ CallGetVesselType
    \/ CallGetOilTypeTanker

SpecUnit == InitUnit /\ [][NextUnit]_vars

-----------------------------------------------------------------------------
(* Properties of random_oil_spills, checked under Spec *)

Last(seq) == seq[Len(seq)]

\* C1: two calls of random_oil_spills with the same n_spills, configuration,
\* input datasets and seed S make the same sequence of draws and give the
\* caller the same result: the same table, row for row, or the same error.
C1_SameSeedSameTable ==
    args.random_seed # NoSeed
        => \A i, j \in 1 .. Len(returned) : returned[i] = returned[j]

\* two seeded calls that each returned a table of two rows
C1_TwoSeededRuns ==
    /\ args.random_seed # NoSeed
    /\ Len(returned) = 2
    /\ returned[2].err = NoErr
    /\ Len(returned[2].df[1].vessel_type) = 2
    /\ Len(returned[2].draws) > 0

\* the functions whose draws belong to a stage
DrawersOf(stage) ==
    IF stage = "get_oil_type"
    THEN {"get_oil_type", "get_oil_type_barge", "get_oil_type_cargo",
          "get_oil_type_cargo_generic_US"}
    ELSE {stage}

\* C2: the stages of the call under way ran in the fixed order get_date,
\* get_lat_lon_indices, get_vessel_type, get_length_origin_destination,
\* adjust_tug_tank_barge_length, get_oil_capacity, fuel_or_cargo_spill,
\* choose_fraction_spilled, get_oil_type, event after event; every draw of
\* the one generator was made by the stage whose turn it was, so the draws
\* of an event all precede those of the next; and each stage read only
\* variables that earlier stages of the same event had assigned.
C2_StageOrder ==
    /\ \A k \in 1 .. Len(history) :
        /\ history[k].stage = Stages[((k - 1) % Len(Stages)) + 1]
        /\ history[k].spill = (k - 1) \div Len(Stages)
        /\ history[k].first_draw = IF k = 1 THEN 0 ELSE history[k - 1].last_draw
        /\ history[k].first_draw <= history[k].last_draw
        /\ history[k].last_draw <= Draws(random_generator)
        /\ \A d \in (history[k].first_draw + 1) .. history[k].last_draw :
               random_generator.log[d].by \in DrawersOf(history[k].stage)
        /\ history[k].reads \subseteq history[k].assigned
    /\ (pc # "idle" /\ history # << >>)
           => Last(history).last_draw = Draws(random_generator)
    /\ (pc # "idle" /\ history = << >>) => Draws(random_generator) = 0

\* the last stage of a second event has run; in both events the stages
\* fuel_or_cargo_spill and get_oil_type drew
C2_SecondEventDone ==
    /\ Len(history) = 2 * Len(Stages)
    /\ Last(history).err = NoErr
    /\ \A k \in {7, 9, Len(Stages) + 7, Len(Stages) + 9} :
           history[k].first_draw < history[k].last_draw

\* at the head of the loop every column holds one item per completed
\* iteration; a returned table holds n_spills rows with run_days 7
C3_State ==
    /\ pc \in {Stages[1], "return"}
           => \A c \in Columns : Len(spill_params[c]) = spill
    /\ \A i \in 1 .. Len(returned) :
           returned[i].err = NoErr =>
               /\ \A c \in Columns : Len(returned[i].df[1][c]) = args.n_spills
               /\ \A j \in 1 .. args.n_spills :
                      returned[i].df[1].run_days[j] = 7

\* within a call a column changes only by one item added at its end, and
\* only in the row of the iteration under way
C3_Step ==
    pc # "idle" =>
        \A c \in Columns :
            \/ spill_params'[c] = spill_params[c]
            \/ /\ Len(spill_params[c]) = spill
               /\ Len(spill_params'[c]) = spill + 1
               /\ SubSeq(spill_params'[c], 1, spill) = spill_params[c]

\* C3: a call that completes returns a table of exactly n_spills rows, row i
\* made by iteration i, run_days 7 in every row; after every completed
\* iteration all columns have the same length; a row once appended is never
\* changed by a later iteration.
C3_RowsAppendOnly == [] C3_State /\ [][C3_Step]_vars

\* the second iteration is adding to a table that holds the first row
C3_SecondRowUnderWay ==
    /\ spill = 1
    /\ pc = "get_oil_type"
    /\ Len(spill_params.spill_volume) = 2
    /\ Len(spill_params.Lagrangian_template) = 1

\* a stage has just failed
StageFailed == Len(history') = Len(history) + 1 /\ Last(history').err # NoErr

\* C4: when a stage of an event fails, random_oil_spills ends at once with
\* that error: the caller gets the error and no table, the failed stage is
\* the last stage the call runs, and no later event is sampled.
C4_FailureAborts ==
    /\ [][StageFailed =>
            /\ pc' = "idle"
            /\ Len(returned') = Len(returned) + 1
            /\ Last(returned').err = Last(history').err
            /\ Last(returned').df = << >>
            /\ Last(returned').draws = random_generator'.log]_vars
    /\ [](\A k \in 1 .. Len(history) :
              history[k].err # NoErr => (k = Len(history) /\ pc = "idle"))
    /\ [](\A i \in 1 .. Len(returned) :
              returned[i].err # NoErr <=> returned[i].df = << >>)

\* a stage of the second event failed after the first event had completed
C4_SecondEventFailed ==
    /\ pc = "idle"
    /\ Len(history) > Len(Stages)
    /\ Last(history).err # NoErr
    /\ Last(history).spill = 1
    /\ Last(returned).df = << >>
    /\ Len(spill_params.Lagrangian_template) = 1

-----------------------------------------------------------------------------
(* Properties of the functions called on their own, checked under SpecUnit *)

\* the draws the call made, in order
NewDraws == SubSeq(call.res.rng.log, Draws(call.before) + 1, Draws(call.res.rng))

\* the call left the generator as it found it: no draw consumed
NoDraw == call.res.rng.s = call.before.s /\ NewDraws = << >>

\* the call found the table of its vessel type (and facility)
TableFound ==
    IF call.fn = "get_oil_type_cargo"
    THEN /\ call.facility \in DOMAIN call.cargo_info
         /\ call.vessel_type \in DOMAIN call.cargo_info[call.facility]
    ELSE call.vessel_type \in DOMAIN call.cargo_info

CallShip ==
    IF call.fn = "get_oil_type_cargo"
    THEN call.cargo_info[call.facility][call.vessel_type]
    ELSE call.cargo_info[call.vessel_type]

\* 1e-3 in the units of One
Margin == One \div 1000

\* C5: get_oil_type_cargo and get_oil_type_cargo_generic_US raise, without
\* consuming a draw, for every table whose fractions sum to a value in
\* [0, 1-1e-3] or [1+1e-3, infinity), the all-zero table included; the
\* error carries the table, the vessel type and, for get_oil_type_cargo
\* (the one of the two that takes a facility), the facility.
C5_BadSumRaises ==
    (/\ call.fn \in {"get_oil_type_cargo", "get_oil_type_cargo_generic_US"}
     /\ TableFound
     /\ \/ Sum(fractions(CallShip)) <= One - Margin
        \/ Sum(fractions(CallShip)) >= One + Margin)
        => /\ call.res.err.type = "ValueError"
           /\ NoDraw
           /\ {"sum", "cargo_info", "vessel_type"} \subseteq DOMAIN call.res.err
           /\ call.res.err.sum = Sum(fractions(CallShip))
           /\ call.res.err.cargo_info = call.cargo_info
           /\ call.res.err.vessel_type = call.vessel_type
           /\ call.fn = "get_oil_type_cargo"
                  => /\ "facility" \in DOMAIN call.res.err
                     /\ call.res.err.facility = call.facility

\* get_oil_type_cargo refused a table whose fractions are all zero
C5_AllZeroRefused ==
    /\ call.fn = "get_oil_type_cargo"
    /\ TableFound
    /\ Sum(fractions(CallShip)) = 0
    /\ call.res.err.type = "ValueError"
    /\ call.res.err.facility = Westridge

\* C6: get_oil_type_cargo called with facility None and a table keyed
\* directly by vessel type draws one oil type from the fractions of the
\* vessel type and returns it.
C6_NoFacilityLevel ==
    (/\ call.fn = "get_oil_type_cargo"
     /\ call.facility = None
     /\ call.cargo_info \in VesselTables
     /\ call.vessel_type \in DOMAIN call.cargo_info
     /\ Sum(fractions(call.cargo_info[call.vessel_type])) = One)
        => /\ ~ Failed(call.res)
           /\ Len(NewDraws) = 1
           /\ \E i \in 1 .. Len(call.cargo_info[call.vessel_type]) :
                  /\ call.cargo_info[call.vessel_type][i].oil = call.res.val
                  /\ call.cargo_info[call.vessel_type][i].fraction_of_total > 0

\* a cargo spill of a barge reached the attribution tree: the attribution
\* files are there and the fuel table of the barge is valid
BargeCargoSpill ==
    /\ call.fn = "get_oil_type"
    /\ call.vessel_type = "barge"
    /\ ~ call.fuel_spill
    /\ MissingFiles(call.w) = {}
    /\ Abs(vessel_fuel_types(call.w)["barge"].bunker
           + vessel_fuel_types(call.w)["barge"].diesel - One) <= Tol

Terminals == CAD_origin_destination \cup US_origin_destination

GateDraws == { d \in 1 .. Len(NewDraws) : NewDraws[d].by = "get_oil_type_barge" }

\* C7: for a barge cargo spill whose origin and destination are both
\* outside the two terminal sets the first draw is the gate, drawn with
\* [probability_oilcargo, 1 - probability_oilcargo], and it is the only gate
\* draw.  When the gate selects fuel-only no table is consulted and the oil
\* type is drawn from the bunker/diesel distribution of the barge; otherwise
\* one draw from a generic table follows (or the table's sum is refused).
\* For a voyage linked to a terminal there is no gate draw.
C7_BargeGate ==
    BargeCargoSpill =>
        IF call.vessel_origin \notin Terminals /\ call.vessel_dest \notin Terminals
        THEN /\ GateDraws = {1}
             /\ NewDraws[1].p = << probability_oilcargo(call.w),
                                   One - probability_oilcargo(call.w) >>
             /\ NewDraws[1].k = 2 =>
                    /\ Len(NewDraws) = 2
                    /\ NewDraws[2].by = "get_oil_type"
                    /\ NewDraws[2].p = << vessel_fuel_types(call.w)["barge"].bunker,
                                          vessel_fuel_types(call.w)["barge"].diesel >>
                    /\ call.res.rng.lookups = call.before.lookups
                    /\ ~ Failed(call.res)
                    /\ call.res.val = << "bunker", "diesel" >>[NewDraws[2].k]
             /\ NewDraws[1].k = 1 =>
                    /\ call.res.rng.lookups = call.before.lookups + 1
                    /\ IF Failed(call.res)
                       THEN Len(NewDraws) = 1 /\ call.res.err.type = "ValueError"
                       ELSE /\ Len(NewDraws) = 2
                            /\ NewDraws[2].by = "get_oil_type_cargo_generic_US"
                            /\ call.res.val \notin {None, ""}
        ELSE GateDraws = {}

\* the gate chose fuel-only for a barge from 'Canada' and the fuel draw
\* gave diesel
C7_GateFuelOnly ==
    /\ BargeCargoSpill
    /\ call.vessel_origin = "Canada"
    /\ call.vessel_dest = None
    /\ Len(NewDraws) = 2
    /\ NewDraws[1].by = "get_oil_type_barge"
    /\ NewDraws[1].k = 2
    /\ call.res.val = "diesel"

\* C8: for an atb or barge cargo spill from Westridge to a Canadian
\* terminal that is no US terminal, and for one to Westridge from an origin
\* in neither terminal set, get_oil_type returns 'jet', consumes no draw and
\* consults no fraction table (given the attribution files and a valid fuel
\* table of the vessel type, which get_oil_type reads before the tree).
C8_WestridgeJet ==
    (/\ call.fn = "get_oil_type"
     /\ call.vessel_type \in {"atb", "barge"}
     /\ ~ call.fuel_spill
     /\ MissingFiles(call.w) = {}
     /\ Abs(vessel_fuel_types(call.w)[call.vessel_type].bunker
            + vessel_fuel_types(call.w)[call.vessel_type].diesel - One) <= Tol
     /\ \/ /\ call.vessel_origin = Westridge
           /\ call.vessel_dest \in CAD_origin_destination
           /\ call.vessel_dest \notin US_origin_destination
        \/ /\ call.vessel_dest = Westridge
           /\ call.vessel_origin \notin Terminals)
        => call.res = Ok("jet", call.before)

\* an atb with no origin bound for Westridge got jet
C8_AtbToWestridge ==
    /\ call.fn = "get_oil_type"
    /\ call.vessel_type = "atb"
    /\ ~ call.fuel_spill
    /\ call.vessel_origin = None
    /\ call.vessel_dest = Westridge
    /\ call.res.val = "jet"

FuelProbs ==
    << vessel_fuel_types(call.w)[call.vessel_type].bunker,
       vessel_fuel_types(call.w)[call.vessel_type].diesel >>

\* C9: when fuel_spill is true get_oil_type makes exactly one draw, from
\* the bunker/diesel distribution of the vessel type, and returns 'bunker'
\* or 'diesel' whatever the origin and destination; when the two
\* probabilities differ from summing to 1 by more than 1e-4 it raises
\* without drawing.
C9_FuelSpillDraw ==
    (call.fn = "get_oil_type" /\ call.fuel_spill)
        => IF Abs(Sum(FuelProbs) - One) > Tol
           THEN call.res.err.type = "ValueError" /\ call.res.rng = call.before
           ELSE /\ ~ Failed(call.res)
                /\ Len(NewDraws) = 1
                /\ NewDraws[1].by = "get_oil_type"
                /\ NewDraws[1].p = FuelProbs
                /\ call.res.val = << "bunker", "diesel" >>[NewDraws[1].k]
                /\ call.res.rng.lookups = call.before.lookups

\* a fuel spill of a tanker on a voyage from Westridge gave bunker
C9_TankerBunker ==
    /\ call.fn = "get_oil_type"
    /\ call.fuel_spill
    /\ call.vessel_type = "tanker"
    /\ call.vessel_origin = Westridge
    /\ call.vessel_dest = USOil
    /\ call.res.val = "bunker"
    /\ Len(NewDraws) = 1

\* C10: fuel_or_cargo_spill returns a boolean drawn in exactly one draw
\* with the (probability_cargo, probability_fuel) pair of the vessel type
\* (a pair that sums to 1); for a vessel type without those keys it returns
\* True and leaves the generator as it was.
C10_FuelOrCargo ==
    call.fn = "fuel_or_cargo_spill"
        => IF ~ HasSpillProbabilities(call.w, call.vessel_type)
           THEN call.res = Ok(TRUE, call.before)
           ELSE (probability_cargo(call.w, call.vessel_type)
                 + probability_fuel(call.w, call.vessel_type) = One)
                    => /\ ~ Failed(call.res)
                       /\ Len(NewDraws) = 1
                       /\ NewDraws[1].by = "fuel_or_cargo_spill"
                       /\ NewDraws[1].p =
                              << probability_cargo(call.w, call.vessel_type),
                                 probability_fuel(call.w, call.vessel_type) >>
                       /\ call.res.val = (NewDraws[1].k = 2)

\* a ferry, which has no cargo probabilities, gave True without a draw
C10_FerryNoDraw ==
    /\ call.fn = "fuel_or_cargo_spill"
    /\ call.vessel_type = "ferry"
    /\ call.res.val = TRUE
    /\ call.res.rng = call.before

-----------------------------------------------------------------------------
(* Oil capacity *)

\* C11: for every valid vessel type, get_oil_capacity with a length below
\* the type's min_length returns (min_fuel, min_cargo) for the tank vessels
\* and (min_fuel, 0) for the others, with a length above max_length it
\* returns (max_fuel, max_cargo) for the tank vessels and (max_fuel, 0) for
\* the others, and in both cases no random draw is consumed
C11_OutOfRangeLength ==
    (call.fn = "get_oil_capacity" /\ call.vessel_type \in AllVessels) =>
        LET attrs == vessel_attributes(call.w, call.vessel_type)
            tank == call.vessel_type \in {"tanker", "atb", "barge"}
        IN  /\ call.vessel_length < attrs.min_length =>
                /\ ~Failed(call.res)
                /\ call.res.val =
                       [fuel_capacity |-> attrs.min_fuel,
                        cargo_capacity |-> IF tank THEN attrs.min_cargo ELSE 0]
                /\ NoDraw
            /\ call.vessel_length > attrs.max_length =>
                /\ ~Failed(call.res)
                /\ call.res.val =
                       [fuel_capacity |-> attrs.max_fuel,
                        cargo_capacity |-> IF tank THEN attrs.max_cargo ELSE 0]
                /\ NoDraw

\* a tanker longer than any tanker of the attributes got the largest
\* capacities, and a ferry shorter than any ferry the smallest fuel capacity
C11_TankerAboveMax ==
    /\ call.fn = "get_oil_capacity"
    /\ call.vessel_type = "tanker"
    /\ call.vessel_length = 301
    /\ call.res.val = [fuel_capacity |-> 3600, cargo_capacity |-> 185000]
    /\ NoDraw

\* C12: get_oil_capacity called with a vessel type that is not one of the
\* categories raises an error that lists the valid types, and does so before
\* any length comparison, table lookup or random draw: the generator is left
\* as it was, whatever the length
C12_InvalidVesselType ==
    (call.fn = "get_oil_capacity" /\ call.vessel_type \notin AllVessels) =>
        /\ Failed(call.res)
        /\ call.res.err.type = "ValueError"
        /\ "valid" \in DOMAIN call.res.err
        /\ call.res.err.valid = all_vessels
        /\ call.res.val = None
        /\ call.res.rng = call.before

\* a tug shorter than every minimum length was refused
C12_TugRefused ==
    /\ call.fn = "get_oil_capacity"
    /\ call.vessel_type = NotAVessel
    /\ call.vessel_length = 0
    /\ Failed(call.res)

-----------------------------------------------------------------------------
(* Tug and tank barge length *)

\* C13: adjust_tug_tank_barge_length is the identity for every vessel type
\* other than atb and barge, and for atb and barge of length 100 or more: it
\* returns the length it was given, consumes no draw, and applied to its own
\* result it returns that length again, f(f(x)) = f(x) = x
C13_AdjustIdentity ==
    (/\ call.fn = "adjust_tug_tank_barge_length"
     /\ (call.vessel_type \notin {"atb", "barge"} \/ call.vessel_len >= 100)) =>
        /\ ~Failed(call.res)
        /\ call.res.val = call.vessel_len
        /\ NoDraw
        /\ ~Failed(call.again)
        /\ call.again.val = call.res.val
        /\ call.again.rng = call.before

\* an atb exactly 100 long, and a tanker 43 long, kept their lengths
C13_AtbAtThreshold ==
    /\ call.fn = "adjust_tug_tank_barge_length"
    /\ call.vessel_type = "atb"
    /\ call.vessel_len = 100
    /\ call.again.val = 100

\* C14: for an atb or a barge shorter than 100, adjust_tug_tank_barge_length
\* discards the observed length and returns one of 147, 172, 178, 206, 207
\* chosen by exactly one uniform draw; the result is the same whatever the
\* observed length below 100
C14_AdjustDraw ==
    (/\ call.fn = "adjust_tug_tank_barge_length"
     /\ call.vessel_type \in {"atb", "barge"}
     /\ call.vessel_len < 100) =>
        /\ ~Failed(call.res)
        /\ Len(NewDraws) = 1
        /\ NewDraws[1].by = "adjust_tug_tank_barge_length"
        /\ NewDraws[1].p = << >>
        /\ NewDraws[1].n = 5
        /\ call.res.val = << 147, 172, 178, 206, 207 >>[NewDraws[1].k]
        /\ call.other_len < 100 => call.other = call.res

\* a barge observed 43 long got the longest catalogue length, and would have
\* got it had it been observed 99 long
C14_BargeGetsCatalogueLength ==
    /\ call.fn = "adjust_tug_tank_barge_length"
    /\ call.vessel_type = "barge"
    /\ call.vessel_len = 43
    /\ call.other_len = 99
    /\ call.res.val = 207
    /\ call.other.val = 207

-----------------------------------------------------------------------------
(* _clamp *)

\* C15: for thresholds lo <= hi, lo <= _clamp(n, lo, hi) <= hi for every n,
\* and _clamp(n, lo, hi) = n whenever lo <= n <= hi
C15_ClampWithinThresholds ==
    (call.fn = "_clamp" /\ call.minn <= call.maxn) =>
        /\ call.minn <= call.res.val
        /\ call.res.val <= call.maxn
        /\ (call.minn <= call.n /\ call.n <= call.maxn) => call.res.val = call.n

\* a capacity above the upper threshold was brought down to it
C15_ClampedFromAbove ==
    /\ call.fn = "_clamp"
    /\ call.n = 12
    /\ call.minn = 2
    /\ call.maxn = 10
    /\ call.res.val = 10

-----------------------------------------------------------------------------
(* Spill date and hour *)

\* the whole hours from start_date to end_date that fall in month m
HoursOfMonth(m) ==
    {h \in call.start_date .. call.end_date : MonthOf(h) = m}

\* C16: a get_date that returns has made exactly two draws, first the month
\* weighted by the VTE vector and then one timestamp uniformly among the
\* hours of that month in the window; the timestamp is start + k hours with
\* 0 <= k <= whole hours from start to end, so start <= t <= end with the
\* end included, its calendar month is the month drawn, and a month whose
\* VTE weight is 0 is never returned. A get_date that fails has made the
\* month draw only, for a month with no hour in the window, or no draw
C16_GetDate ==
    (call.fn = "get_date") =>
        IF Failed(call.res)
        THEN \/ NoDraw
             \/ /\ Len(NewDraws) = 1
                /\ HoursOfMonth(NewDraws[1].k) = {}
        ELSE /\ Len(NewDraws) = 2
             /\ NewDraws[1].by = "get_date"
             /\ NewDraws[1].p = call.vte_probability
             /\ NewDraws[1].n = 12
             /\ NewDraws[2].by = "get_date"
             /\ NewDraws[2].p = << >>
             /\ NewDraws[2].n = Cardinality(HoursOfMonth(NewDraws[1].k))
             /\ call.res.val \in call.start_date .. call.end_date
             /\ MonthOf(call.res.val) = NewDraws[1].k
             /\ call.vte_probability[MonthOf(call.res.val)] > 0

\* the last hour of the window was returned, from a window that ends in a
\* month other than the one it starts in
C16_EndDateReturned ==
    /\ call.fn = "get_date"
    /\ ~Failed(call.res)
    /\ call.res.val = call.end_date
    /\ MonthOf(call.start_date) # MonthOf(call.end_date)
    /\ \E m \in 1 .. 12 : m # MonthOf(call.end_date) /\ call.vte_probability[m] > 0

-----------------------------------------------------------------------------
(* Spill location *)

\* the mesh points that are water and strictly inside GeoTIFF cell c (row
\* c \div width from the top, column c % width)
WaterPointsInCell(w, c) ==
    LET row == c \div GeotiffWidth(w)
        col == c % GeotiffWidth(w)
    IN  {p \in MeshPoints(w) :
            /\ tmask(w, p) = 1
            /\ col * CellSize(w) < glamt(w, p)
            /\ glamt(w, p) < (col + 1) * CellSize(w)
            /\ (GeotiffHeight(w) - row - 1) * CellSize(w) < gphit(w, p)
            /\ gphit(w, p) < (GeotiffHeight(w) - row) * CellSize(w)}

\* C17: the raster cell get_lat_lon_indices draws has a true navigability
\* mask and a traffic density greater than 0, and the indices and the cell
\* value it returns are that cell's, the value positive; the mesh point it
\* draws is a water point (tmask = 1) whose longitude and latitude lie
\* strictly inside that cell's bounding box, every such point having the same
\* weight in the draw and every other point weight 0
C17_CellAndWaterPoint ==
    (call.fn = "get_lat_lon_indices") =>
        /\ Len(NewDraws) >= 1 =>
            LET c == NewDraws[1].k - 1
            IN  /\ geotiff_watermask(call.w)[c]
                /\ AllRaster(call.w, call.spill_month)[c] > 0
                /\ ~Failed(call.res) =>
                    /\ call.res.val.px = c \div GeotiffWidth(call.w)
                    /\ call.res.val.py = c % GeotiffWidth(call.w)
                    /\ call.res.val.value = AllRaster(call.w, call.spill_month)[c]
                    /\ call.res.val.value > 0
        /\ Len(NewDraws) >= 2 =>
            LET c == NewDraws[1].k - 1
                inside == WaterPointsInCell(call.w, c)
            IN  /\ NewDraws[2].k - 1 \in inside
                /\ \A p \in MeshPoints(call.w) :
                       NewDraws[2].p[p + 1] = IF p \in inside THEN 1 ELSE 0
                /\ ~Failed(call.res) => call.res.val.ssp = NewDraws[2].k - 1
        /\ ~Failed(call.res) => Len(NewDraws) = 3

\* the cell with land points inside it was drawn, and one of its two water
\* points after it
C17_CellWithLandDrawn ==
    /\ call.fn = "get_lat_lon_indices"
    /\ ~Failed(call.res)
    /\ call.res.val.px = 1
    /\ call.res.val.py = 0
    /\ call.res.val.ssp \in {1, 4}

-----------------------------------------------------------------------------
(* Vessel length, origin and destination *)

\* the tracks geopandas.read_file returned to the call
CallTracks == ais_tracks(call.w, call.vessel_type, call.spill_month, call.cell)

\* the error of get_length_origin_destination, naming the query
NoTracksError ==
    /\ Failed(call.res)
    /\ call.res.val = None
    /\ call.res.err.type = "ValueError"
    /\ call.res.err.msg = "No AIS tracks in GeoTIFF box"
    /\ call.res.err.vessel_type = call.vessel_type
    /\ call.res.err.spill_month = call.spill_month
    /\ call.res.err.geotiff_bbox = call.geotiff_bbox

\* C18: when no AIS track intersects the cell's bounding box for the vessel
\* type and month, get_length_origin_destination raises an error that names
\* the query parameters and returns no track; and the error is raised only
\* when the set of candidate tracks is empty
C18_ErrorOnlyWhenNoTrack ==
    (call.fn = "get_length_origin_destination") =>
        /\ CallTracks = << >> => NoTracksError
        /\ Failed(call.res) => CallTracks = << >>

-----------------------------------------------------------------------------
(* Vessel type *)

\* the density of each candidate vessel type at the cell of the call
CallDensities ==
    [i \in 1 .. Len(call.vessel_types) |->
        TypeRaster(call.w, call.vessel_types[i], call.spill_month)
            [call.geotiff_x_index * GeotiffWidth(call.w) + call.geotiff_y_index]]

\* C19: when every candidate vessel type has density 0 at the sampled cell,
\* get_vessel_type fails with an error and returns no vessel type; otherwise
\* it makes exactly one draw, weighted by the densities, and returns a
\* candidate type whose density at that cell is greater than 0
C19_VesselTypeByDensity ==
    (call.fn = "get_vessel_type") =>
        IF \A i \in 1 .. Len(call.vessel_types) : CallDensities[i] = 0
        THEN /\ Failed(call.res)
             /\ call.res.val = None
             /\ NoDraw
        ELSE /\ ~Failed(call.res)
             /\ Len(NewDraws) = 1
             /\ NewDraws[1].by = "get_vessel_type"
             /\ NewDraws[1].p = CallDensities
             /\ \E i \in 1 .. Len(call.vessel_types) :
                    /\ call.vessel_types[i] = call.res.val
                    /\ CallDensities[i] > 0

\* in a month with traffic, a cell where no vessel type of the configuration
\* has any was refused
C19_CellWithoutTraffic ==
    /\ call.fn = "get_vessel_type"
    /\ call.vessel_types = all_vessels
    /\ call.spill_month = 2
    /\ call.w = "baddata"
    /\ Failed(call.res)

-----------------------------------------------------------------------------
(* Fraction spilled *)

\* the stage that ran last was choose_fraction_spilled
FractionChosen ==
    /\ history # << >>
    /\ Last(history).stage = "choose_fraction_spilled"

\* the consecutive differences of the cumulative distribution at the bin edges
BinProbability == [k \in 1 .. 50 |-> cumulative[k + 1] - cumulative[k]]

\* C20: choose_fraction_spilled makes exactly one draw and returns one of
\* the 50 bin centres (2k+1)/100, k in 0..49, weighted by the consecutive
\* differences of the cumulative distribution, which are all non-negative and
\* sum to 1, the cumulative distribution being 0 at fraction 0 and 1 at
\* fraction 1; so the fraction is strictly between 0 and 1 and the
\* spill_volume made from it never exceeds the capacity selected (volumes in
\* hundredths, fractions in hundredths, probabilities in millionths)
C20_FractionSpilled ==
    FractionChosen =>
        LET h == Last(history)
            d == random_generator.log[h.last_draw]
            volume == Last(spill_params.spill_volume)
        IN  /\ h.err = NoErr
            /\ h.last_draw = h.first_draw + 1
            /\ d.by = "choose_fraction_spilled"
            /\ d.n = 50
            /\ d.p = BinProbability
            /\ \A k \in 1 .. 50 : BinProbability[k] >= 0
            /\ Sum(BinProbability) = Millionths
            /\ cumulative[1] = 0
            /\ cumulative[51] = Millionths
            /\ d.k \in 1 .. 50
            /\ volume = ev.max_spill_volume * (2 * (d.k - 1) + 1)
            /\ 0 < 2 * (d.k - 1) + 1
            /\ 2 * (d.k - 1) + 1 < 100
            /\ volume <= 100 * ev.max_spill_volume
            /\ ev.max_spill_volume > 0 => volume < 100 * ev.max_spill_volume

\* more than half of a capacity that is not zero was spilled
C20_MoreThanHalfSpilled ==
    /\ FractionChosen
    /\ ev.max_spill_volume > 0
    /\ 2 * Last(spill_params.spill_volume) > 100 * ev.max_spill_volume

-----------------------------------------------------------------------------
(* observations.get_ndbc_buoy: the download of a buoy's observations.  The  *)
(* call is followed through its fetches; call holds its locals, the fetches *)
(* made so far (attempts) and the log records, pc its position.             *)

\* buoy ids: numbers, and names that moad_tools.places.PLACES may know
BuoyNumber(n) == [kind |-> "number", number |-> n, name |-> ""]

BuoyName(name) == [kind |-> "name", number |-> 0, name |-> name]

BuoyIds ==
    {BuoyNumber(43), BuoyNumber(46146), BuoyName("Halibut Bank"),
     BuoyName("Sentry Shoal"), BuoyName("2nd Narrows Rail Bridge"),
     BuoyName("foobar")}

\* PLACES[name]["EC buoy number"], 0 where the lookup raises KeyError
EC_buoy_number(name) ==
    CASE name = "Halibut Bank" -> 46146
      [] name = "Sentry Shoal" -> 46131
      [] OTHER -> 0

\* what a fetch of a URL can end in: the text of the observations, an
\* HTTPError (which is a URLError), or a URLError that is not an HTTPError
HTTPError(code, reason) == [kind |-> "HTTPError", code |-> code, reason |-> reason]

Responses ==
    {[kind |-> "text", code |-> 200, reason |-> "OK"],
     HTTPError(403, "Forbidden"), HTTPError(404, "Not Found"),
     HTTPError(500, "Internal Server Error"),
     HTTPError(503, "Service Unavailable"),
     [kind |-> "URLError", code |-> 0, reason |-> "SSL: UNKNOWN_PROTOCOL"]}

\* endpoint + buoy_number + ".txt"
NdbcUrl(scheme, buoy_number) ==
    [scheme |-> scheme, host |-> "www.ndbc.noaa.gov",
     path |-> "/data/realtime2/", file |-> buoy_number]

\* the URL of the second fetch, left as the first fetch had it
http_url_unchanged(ndbc_url) == ndbc_url

\* ndbc_url.replace("https://", "http://")
http_url(ndbc_url) ==
    IF ndbc_url.scheme = "https" THEN [ndbc_url EXCEPT !.scheme = "http"]
    ELSE ndbc_url

\* the data frame made of the text fetched: renamed columns, time index, sorted
DataFrame(ndbc_url) == [kind |-> "DataFrame", url |-> ndbc_url, index |-> "time"]

LogRecord(levelname, message) == [levelname |-> levelname, message |-> message]

BuoyIdle == [fn |-> "none"]

\* the call up to its first fetch: the buoy number is found and logged, or
\* the name is unknown and the call ends in KeyError
GetNdbcBuoy ==
    /\ pc = "buoy"
    /\ \E buoy_id \in BuoyIds :
        LET buoy_number == IF buoy_id.kind = "number" THEN buoy_id.number
                           ELSE EC_buoy_number(buoy_id.name)
        IN  IF buoy_number = 0
            THEN /\ call' = [fn |-> "get_ndbc_buoy", buoy_id |-> buoy_id,
                             ndbc_url |-> NdbcUrl("https", 0), attempts |-> << >>,
                             log |-> << LogRecord("ERROR",
                                            [text |-> "buoy id not found in places.PLACES",
                                             buoy_id |-> buoy_id]) >>,
                             res |-> Raise([type |-> "KeyError", key |-> buoy_id.name],
                                           random_generator)]
                 /\ pc' = "buoy_done"
            ELSE /\ call' = [fn |-> "get_ndbc_buoy", buoy_id |-> buoy_id,
                             ndbc_url |-> NdbcUrl("https", buoy_number),
                             attempts |-> << >>,
                             log |-> << LogRecord("INFO",
                                            [text |-> "retrieving available real-time buoy data",
                                             buoy_id |-> buoy_id]) >>,
                             res |-> Ok(None, random_generator)]
                 /\ pc' = "buoy_https"
    /\ UNCHANGED << random_generator, args, spill, ev, spill_params, history, returned >>

\* the call from a successful fetch to its return
ReturnDataFrame(attempt) ==
    /\ call' = [call EXCEPT !.attempts = Append(@, attempt),
                            !.ndbc_url = attempt.url,
                            !.res = Ok(DataFrame(attempt.url), random_generator)]
    /\ pc' = "buoy_done"

\* the first pandas.read_csv, of the https URL; any URLError, an HTTPError
\* being one, leads to the second fetch
ReadCsvHttps ==
    /\ pc = "buoy_https"
    /\ \E response \in Responses :
        LET attempt == [url |-> call.ndbc_url, response |-> response]
        IN  IF response.kind = "text"
            THEN ReturnDataFrame(attempt)
            ELSE /\ call' = [call EXCEPT !.attempts = Append(@, attempt),
                                         !.ndbc_url = http_url(call.ndbc_url)]
                 /\ pc' = "buoy_http"
    /\ UNCHANGED << random_generator, args, spill, ev, spill_params, history, returned >>

\* the second pandas.read_csv, in the handler of the first one's URLError:
\* an HTTPError reaches the outer handler, which logs and raises ValueError;
\* any other URLError leaves the call as it is
ReadCsvHttp ==
    /\ pc = "buoy_http"
    /\ \E response \in Responses :
        LET attempt == [url |-> call.ndbc_url, response |-> response]
            msg == [text |-> "buoy data request failed: HTTP Error",
                    code |-> response.code, reason |-> response.reason,
                    ndbc_url |-> call.ndbc_url]
        IN  IF response.kind = "text"
            THEN ReturnDataFrame(attempt)
            ELSE IF response.kind = "HTTPError"
            THEN /\ call' = [call EXCEPT
                                !.attempts = Append(@, attempt),
                                !.log = Append(@, LogRecord("ERROR", msg)),
                                !.res = Raise([type |-> "ValueError", msg |-> msg],
                                              random_generator)]
                 /\ pc' = "buoy_done"
            ELSE /\ call' = [call EXCEPT
                                !.attempts = Append(@, attempt),
                                !.res = Raise([type |-> "URLError",
                                               reason |-> response.reason],
                                              random_generator)]
                 /\ pc' = "buoy_done"
    /\ UNCHANGED << random_generator, args, spill, ev, spill_params, history, returned >>

InitBuoy ==
    /\ random_generator = NoGenerator
    /\ call = BuoyIdle
    /\ pc = "buoy"
    /\ args = [n_spills |-> 0, random_seed |-> NoSeed, w |-> "ok",
               window |-> CHOOSE x \in Windows : TRUE]
    /\ spill = 0
    /\ ev = NoEvent
    /\ spill_params = EmptyParams
    /\ history = << >>
    /\ returned = << >>

NextBuoy ==
    \/ GetNdbcBuoy
    \/ ReadCsvHttps
    \/ ReadCsvHttp

SpecBuoy == InitBuoy /\ [][NextBuoy]_vars

\* a call of get_ndbc_buoy with a buoy number is under way or over
NumericBuoyCall ==
    /\ pc \in {"buoy_https", "buoy_http", "buoy_done"}
    /\ call.buoy_id.kind = "number"

\* every fetch made so far was answered with an HTTP error
OnlyHTTPErrors ==
    \A i \in 1 .. Len(call.attempts) : call.attempts[i].response.kind = "HTTPError"

\* C21: get_ndbc_buoy with a numeric buoy id whose download keeps answering
\* with an HTTP error makes at most two fetches, the first over https and
\* then one over http, then logs an ERROR and raises ValueError whose message
\* names the HTTP status, the reason and the http:// URL; it makes no third
\* fetch and returns no table
C21_TwoFetchesThenValueError ==
    (NumericBuoyCall /\ OnlyHTTPErrors) =>
        /\ Len(call.attempts) <= 2
        /\ Len(call.attempts) >= 1 =>
               call.attempts[1].url = NdbcUrl("https", call.buoy_id.number)
        /\ Len(call.attempts) = 2 =>
               call.attempts[2].url = NdbcUrl("http", call.buoy_id.number)
        /\ Len(call.attempts) = 1 => pc = "buoy_http"
        /\ call.res.val = None
        /\ pc = "buoy_done" =>
            /\ Len(call.attempts) = 2
            /\ Failed(call.res)
            /\ call.res.err.type = "ValueError"
            /\ call.res.err.msg.code = call.attempts[2].response.code
            /\ call.res.err.msg.reason = call.attempts[2].response.reason
            /\ call.res.err.msg.ndbc_url = NdbcUrl("http", call.buoy_id.number)
            /\ Len(call.log) = 2
            /\ call.log[2].levelname = "ERROR"
            /\ call.log[2].message = call.res.err.msg

\* buoy 43 answered Forbidden over https and Not Found over http, and the
\* call ended in the error that names 404 and the http URL
C21_NotFoundTwice ==
    /\ pc = "buoy_done"
    /\ call.buoy_id = BuoyNumber(43)
    /\ Len(call.attempts) = 2
    /\ call.attempts[1].response = HTTPError(403, "Forbidden")
    /\ call.attempts[2].response = HTTPError(404, "Not Found")
    /\ call.res.err.type = "ValueError"
    /\ call.res.err.msg.code = 404

-----------------------------------------------------------------------------
(* Tanker cargo attribution *)

\* the entry the claimed order of tests selects for a tanker: its table,
\* the key looked up in it, and the function that draws from it
TankerEntry(w, origin, destination) ==
    LET by_facility(table, key) ==
            [ship |-> table[key]["tanker"], by |-> "get_oil_type_cargo"]
        generic(table) ==
            [ship |-> table["tanker"], by |-> "get_oil_type_cargo_generic_US"]
    IN  CASE origin \in {Westridge, ESSO, Suncor} ->
                (IF origin = Westridge THEN by_facility(CAD_yaml(w), origin)
                 ELSE IF destination \in {USOil, BPCherry}
                 THEN by_facility(WA_in_yaml(w), destination)
                 ELSE by_facility(CAD_yaml(w), origin))
          [] origin \in {USOil, BPCherry} -> by_facility(WA_out_yaml(w), origin)
          [] origin \notin {Westridge, ESSO, Suncor, USOil, BPCherry}
                /\ destination \in {USOil, BPCherry} ->
                by_facility(WA_in_yaml(w), destination)
          [] origin \notin {Westridge, ESSO, Suncor, USOil, BPCherry}
                /\ destination \in {Westridge, ESSO, Suncor} ->
                by_facility(CAD_yaml(w), destination)
          [] OTHER ->
                (IF origin = "Pacific" THEN generic(Pacific_yaml(w))
                 ELSE IF origin = "US" THEN generic(US_yaml(w))
                 ELSE generic(USall_yaml(w)))

\* C22: for a tanker cargo spill get_oil_type_tanker selects its table and
\* lookup key by first match in this order: origin Canadian -> (Westridge:
\* Canadian table by origin; else destination US: WA-destination table by
\* destination; else Canadian table by origin); origin US -> WA-origin table
\* by origin; destination US -> WA-destination table by destination;
\* destination Canadian -> Canadian table by destination; origin "Pacific"
\* -> Pacific table; origin "US" -> US-origin table; anything else, null
\* origin and destination included -> combined-US table.  With the files in
\* place exactly one draw is made on every path, from that entry
C22_TankerTree ==
    (call.fn = "get_oil_type_tanker" /\ MissingFiles(call.w) = {}) =>
        LET e == TankerEntry(call.w, call.origin, call.destination)
        IN  /\ ~Failed(call.res)
            /\ Len(NewDraws) = 1
            /\ NewDraws[1].by = e.by
            /\ NewDraws[1].p = fractions(e.ship)
            /\ call.res.val = e.ship[NewDraws[1].k].oil
            /\ call.res.rng.lookups = call.before.lookups + 1

\* a tanker from a Canadian terminal other than Westridge to a US terminal
\* was attributed from the WA-destination table, by its destination
C22_CanadaToUS ==
    /\ call.fn = "get_oil_type_tanker"
    /\ call.origin = Suncor
    /\ call.destination = BPCherry
    /\ ~Failed(call.res)
    /\ NewDraws[1].p = fractions(WA_in_yaml(call.w)[BPCherry]["tanker"])
    /\ call.res.val = "dilbit"

-----------------------------------------------------------------------------
(* Oil capacity of an atb *)

\* the call is get_oil_capacity for the vessel type, with a length within
\* the type's min_length and max_length
CapacityCallInRange(vessel_type) ==
    /\ call.fn = "get_oil_capacity"
    /\ call.vessel_type = vessel_type
    /\ vessel_attributes(call.w, vessel_type).min_length <= call.vessel_length
    /\ call.vessel_length <= vessel_attributes(call.w, vessel_type).max_length

\* C23: for an atb with min_length <= length <= max_length, get_oil_capacity
\* takes the cargo capacity from the linear fit C[0] * length + C[1] clamped
\* to [min_cargo, max_cargo] with no draw when length > 50, and from one
\* weighted draw over the cargo bin centres when length <= 50; the fuel
\* capacity always comes from one weighted draw over the fuel bin centres,
\* made after the cargo capacity is determined: one draw when length > 50,
\* two (cargo, then fuel) otherwise
C23_AtbCapacity ==
    CapacityCallInRange("atb") =>
        LET attrs == vessel_attributes(call.w, "atb")
            C == fit_coefs(call.w, "atb")
            fit == C[1] * call.vessel_length + C[2]
            fuel == NewDraws[Len(NewDraws)]
        IN  /\ ~Failed(call.res)
            /\ Len(NewDraws) = IF call.vessel_length > 50 THEN 1 ELSE 2
            /\ fuel.by = "get_oil_capacity"
            /\ fuel.p = fuel_capacity_probability(call.w, "atb")
            /\ call.res.val.fuel_capacity =
                   fuel_capacity_bin_centers(call.w, "atb")[fuel.k]
            /\ call.vessel_length > 50 =>
                   /\ attrs.min_cargo <= call.res.val.cargo_capacity
                   /\ call.res.val.cargo_capacity <= attrs.max_cargo
                   /\ call.res.val.cargo_capacity \in {fit, attrs.min_cargo, attrs.max_cargo}
                   /\ (attrs.min_cargo <= fit /\ fit <= attrs.max_cargo) =>
                          call.res.val.cargo_capacity = fit
            /\ call.vessel_length <= 50 =>
                   /\ NewDraws[1].by = "get_oil_capacity"
                   /\ NewDraws[1].p = cargo_capacity_probability(call.w, "atb")
                   /\ call.res.val.cargo_capacity =
                          cargo_capacity_bin_centers(call.w, "atb")[NewDraws[1].k]

\* an atb exactly 50 long had its cargo capacity drawn, and then its fuel
\* capacity
C23_AtbOfLength50 ==
    /\ CapacityCallInRange("atb")
    /\ call.vessel_length = 50
    /\ Len(NewDraws) = 2
    /\ call.res.val.cargo_capacity = 25000
    /\ call.res.val.fuel_capacity = 150

-----------------------------------------------------------------------------
(* Oil capacity of the vessels without cargo tanks *)

-----------------------------------------------------------------------------
(* A barge of a terminal without barge transfers *)

\* the barge entry of the table is one of no oil transfer: every fraction 0
NoTransfer(table, facility) == Sum(fractions(table[facility]["barge"])) = 0

\* the call is a cargo spill of a barge whose attribution is looked up at a
\* US terminal, its origin or failing that its destination, for which the
\* table records no barge transfer
BargeOfTerminalWithoutTransfers ==
    /\ call.fn = "get_oil_type"
    /\ call.vessel_type = "barge"
    /\ ~call.fuel_spill
    /\ MissingFiles(call.w) = {}
    /\ \/ /\ call.vessel_origin \in US_origin_destination
          /\ NoTransfer(WA_out_yaml(call.w), call.vessel_origin)
       \/ /\ call.vessel_origin \notin US_origin_destination
          /\ call.vessel_origin # Westridge
          /\ call.vessel_dest \in US_origin_destination
          /\ NoTransfer(WA_in_yaml(call.w), call.vessel_dest)

\* C25: for a barge whose origin (or, failing that, destination) is a US
\* terminal whose barge fractions in the attribution table are all zero,
\* get_oil_type_barge does not fail: the voyage is a fuel-spill-only risk,
\* and get_oil_type draws the oil type from the bunker/diesel distribution
\* of the barge
C25_NoTransferMeansFuelSpill ==
    BargeOfTerminalWithoutTransfers =>
        /\ ~Failed(call.res)
        /\ call.res.val \in {"bunker", "diesel"}
        /\ Len(NewDraws) = 1
        /\ NewDraws[1].by = "get_oil_type"
        /\ NewDraws[1].p = << vessel_fuel_types(call.w)["barge"].bunker,
                              vessel_fuel_types(call.w)["barge"].diesel >>

-----------------------------------------------------------------------------
(* Agreement of a row's fuel_cargo, volume and oil type *)

\* the last stage run was get_oil_type, and it completed the row
RowCompleted ==
    /\ history # << >>
    /\ Last(history).stage = "get_oil_type"
    /\ Last(history).err = NoErr

\* the oil type of the row was drawn from the bunker/diesel distribution of
\* the vessel type
FuelTypeDrawn ==
    \E i \in (Last(history).first_draw + 1) .. Last(history).last_draw :
        random_generator.log[i].by = "get_oil_type"

\* C26: in every output row the fuel_cargo value, the capacity used for
\* spill_volume and the oil type agree: fuel_cargo is "fuel" exactly when the
\* volume was computed from the fuel capacity, and whenever the oil type was
\* drawn from the bunker/diesel distribution the row says "fuel" and its
\* volume comes from the fuel capacity, also for a barge that the
\* attribution reclassifies as fuel-spill-only
C26_RowAgrees ==
    RowCompleted =>
        LET row == Len(spill_params.Lagrangian_template)
        IN  /\ Len(spill_params.fuel_cargo) = row
            /\ Len(spill_params.spill_volume) = row
            /\ spill_params.fuel_cargo[row] = "fuel" =>
                   ev.max_spill_volume = ev.fuel_capacity
            /\ spill_params.fuel_cargo[row] = "cargo" =>
                   ev.max_spill_volume = ev.cargo_capacity
            /\ ev.fuel_capacity # ev.cargo_capacity
            /\ FuelTypeDrawn =>
                   /\ spill_params.fuel_cargo[row] = "fuel"
                   /\ ev.max_spill_volume = ev.fuel_capacity

-----------------------------------------------------------------------------
(* get_oil_type: an oil type for every vessel type and both fuel flags *)

\* the oil types of the cargo tables and of the fuel choice
OilTypeLabels == {"akns", "bunker", "diesel", "dilbit", "gas", "jet", "other"}

\* a call of get_oil_type with the data files of the configuration present
\* that no data entry check (the ValueError of get_oil_type and of
\* get_oil_type_cargo) and no key missing from a table (KeyError) stopped
OilTypeCallWithGoodData ==
    /\ call # NoCall
    /\ call.fn = "get_oil_type"
    /\ call.w = "ok"
    /\ Failed(call.res) => call.res.err.type \notin {"ValueError", "KeyError"}

\* C27: get_oil_type returns an oil-type label, never None and never an
\* unassigned value, for every vessel type of the configuration, every origin
\* and destination (null included) and both values of fuel_spill, also for
\* fuel_spill False with a vessel type that is not atb, barge or tanker
C27_AlwaysAnOilType ==
    OilTypeCallWithGoodData =>
        /\ ~Failed(call.res)
        /\ call.res.val \in OilTypeLabels

-----------------------------------------------------------------------------
(* get_oil_capacity: tankers by length bin *)

\* bin i (counted from 1) contains the length: bins[i][0] <= length < bins[i][1]
BinContains(bins, i, length) == bins[i][1] <= length /\ length < bins[i][2]

\* the call is get_oil_capacity for a tanker within min_length and
\* max_length, at a length from 0 to below the upper edge of the highest bin
TankerCallBelowTopEdge ==
    /\ call # NoCall
    /\ CapacityCallInRange("tanker")
    /\ 0 <= call.vessel_length
    /\ call.vessel_length < MaxMaxBins(length_bins(call.w))

\* C28: for a tanker with min_length <= length <= max_length and the length
\* below the upper edge of the highest bin, get_oil_capacity returns the fuel
\* and cargo capacities of the smallest bin index i with
\* bins[i][0] <= length < bins[i][1]; it never returns the capacities of a
\* bin that does not contain the length, also for a length in a gap between
\* bins
C28_TankerBin ==
    TankerCallBelowTopEdge =>
        LET bins == length_bins(call.w)
        IN  /\ ~Failed(call.res)
            /\ \E i \in 1 .. Len(bins) :
                /\ BinContains(bins, i, call.vessel_length)
                /\ \A j \in 1 .. i - 1 : ~BinContains(bins, j, call.vessel_length)
                /\ call.res.val.fuel_capacity = tanker_fuel_capacity(call.w)[i]
                /\ call.res.val.cargo_capacity = tanker_cargo_capacity(call.w)[i]

-----------------------------------------------------------------------------
(* get_lat_lon_indices: the neighbours the step sizes are taken from *)

\* a call of get_lat_lon_indices that drew a grid point and went on to the
\* step sizes: it returned, or it ended in the IndexError of a neighbour
GridPointDrawn ==
    /\ call # NoCall
    /\ call.fn = "get_lat_lon_indices"
    /\ Failed(call.res) => call.res.err.type = "IndexError"

\* the flat index of the grid point drawn
DrawnPoint == IF Failed(call.res) THEN call.res.err.index ELSE call.res.val.ssp

\* the row of a flat index
RowOf(w, p) == p \div MeshWidth(w)

\* C29: for every water point get_lat_lon_indices can draw, the last column
\* and the last row of the grid included, the neighbours the step sizes are
\* taken from (flat index + 1 and flat index + row width) exist inside the
\* grid, and flat index + 1 is a point of the same row; the function never
\* indexes past the end of the grid
C29_NeighboursInsideGrid ==
    GridPointDrawn =>
        /\ ~Failed(call.res)
        /\ DrawnPoint + 1 \in MeshPoints(call.w)
        /\ DrawnPoint + MeshWidth(call.w) \in MeshPoints(call.w)
        /\ RowOf(call.w, DrawnPoint + 1) = RowOf(call.w, DrawnPoint)

-----------------------------------------------------------------------------
(* calc_watermask and the grid-point draw of get_lat_lon_indices *)

\* a call of get_lat_lon_indices with a navigability mask that calc_watermask
\* made of the same GeoTIFF grid and the same mesh
CallWithCalculatedMask ==
    /\ call # NoCall
    /\ call.fn = "get_lat_lon_indices"
    /\ geotiff_watermask(call.w) = calc_watermask(call.w)

\* C30: with a navigability mask made by calc_watermask of the same GeoTIFF
\* grid and the same mesh, every cell get_lat_lon_indices draws holds a water
\* grid point strictly inside its bounding box, the grid-point weights do
\* not sum to 0 and the grid-point draw is made; the mask of a cell is true
\* exactly when the grid-point filter of get_lat_lon_indices finds a point in
\* it (same cell bounds, same strict inequalities)
C30_CalculatedMaskCellsHaveWater ==
    (call # NoCall /\ call.fn = "get_lat_lon_indices") =>
        /\ \A c \in Cells(call.w) :
               calc_watermask(call.w)[c] <=> WaterPointsInCell(call.w, c) # {}
        /\ (CallWithCalculatedMask /\ Len(NewDraws) >= 1) =>
               /\ WaterPointsInCell(call.w, NewDraws[1].k - 1) # {}
               /\ Len(NewDraws) >= 2
               /\ Sum(NewDraws[2].p) > 0
               /\ NewDraws[2].k - 1 \in WaterPointsInCell(call.w, NewDraws[1].k - 1)
               /\ Failed(call.res) => call.res.err.type = "IndexError"

\* a cell was drawn and a grid point in it, in a grid that has a cell with
\* traffic whose only grid points are land or lie on its edge
C30_PointDrawnBesideMaskedCell ==
    /\ CallWithCalculatedMask
    /\ ~Failed(call.res)
    /\ \E c \in Cells(call.w) :
        /\ ~calc_watermask(call.w)[c]
        /\ AllRaster(call.w, call.spill_month)[c] > 0
        /\ \E p \in MeshPoints(call.w) :
               tmask(call.w, p) = 1 /\ glamt(call.w, p) = CellBBox(call.w, c \div GeotiffWidth(call.w), c % GeotiffWidth(call.w)).llx

====
